---- MODULE Spec2Model ----
(***************************************************************************)
(* XDB (src/XDB.py): loading an Excel/CSV source into SQLite or MySQL.     *)
(*                                                                         *)
(* Part 1 models the SQL identifier helpers (validate_sql_identifier,      *)
(* safe_sql_identifier, clean_table_name, sanitize_table_name,             *)
(* sanitize_column_name) as operators on strings.  A string is a sequence  *)
(* of characters; a character is a one-letter TLA+ string, except three    *)
(* non-ASCII code points that are written by their code point name.        *)
(*                                                                         *)
(* Part 2 models file_to_database for one sheet: header clean-up, target   *)
(* table resolution, table preparation, chunk tasks, the worker pool, the  *)
(* index-keyed reassembly and the two backends' write_data.                *)
(*                                                                         *)
(* Part 3, after the properties of parts 1 and 2, adds the merged cells    *)
(* of a sheet, loads into existing tables, a workbook of two sheets, the   *)
(* column transformations of a worker and detect_column_types, each with   *)
(* the specification its properties are checked under.                     *)
(***************************************************************************)
EXTENDS Integers, Sequences, FiniteSets, TLC

(***************************************************************************)
(* Characters.                                                             *)
(***************************************************************************)
AsciiLower ==
    <<"a", "b", "c", "d", "e", "f", "g", "h", "i", "j", "k", "l", "m",
      "n", "o", "p", "q", "r", "s", "t", "u", "v", "w", "x", "y", "z">>

AsciiUpper ==
    <<"A", "B", "C", "D", "E", "F", "G", "H", "I", "J", "K", "L", "M",
      "N", "O", "P", "Q", "R", "S", "T", "U", "V", "W", "X", "Y", "Z">>

AsciiDigits ==
    <<"0", "1", "2", "3", "4", "5", "6", "7", "8", "9">>

HexDigits ==
    <<"0", "1", "2", "3", "4", "5", "6", "7",
      "8", "9", "a", "b", "c", "d", "e", "f">>

\* U+00E9 (e acute): a letter for \w and str.isalpha, outside [a-zA-Z].
LatinSmallEAcute == "U+00E9"

\* U+4E2D: a character of the CJK range 一-鿿.
CjkIdeograph == "U+4E2D"

\* U+D800: a lone surrogate, which a Python str can hold (json.loads of
\* "\ud800" yields one) and which UTF-8 cannot encode.
LoneSurrogate == "U+D800"

Range(s) == {s[i] : i \in DOMAIN s}

IsAsciiLetter(c) == c \in Range(AsciiLower) \cup Range(AsciiUpper)

IsAsciiDigit(c) == c \in Range(AsciiDigits)

IsCjk(c) == c = CjkIdeograph

\* str.isalpha()
IsAlpha(c) == IsAsciiLetter(c) \/ IsCjk(c) \/ c = LatinSmallEAcute

\* the class \w of a str pattern: Unicode alphanumerics and the underscore
IsWordChar(c) == IsAlpha(c) \/ IsAsciiDigit(c) \/ c = "_"

\* the characters str.strip() removes
Whitespace == {" "}

\* str.upper(), one character
UpperChar(c) ==
    IF c \in Range(AsciiLower)
    THEN AsciiUpper[CHOOSE i \in DOMAIN AsciiLower : AsciiLower[i] = c]
    ELSE IF c = LatinSmallEAcute THEN "U+00C9" ELSE c

Upper(s) == [i \in DOMAIN s |-> UpperChar(s[i])]

(***************************************************************************)
(* String helpers.                                                         *)
(***************************************************************************)
MinOf(S) == CHOOSE x \in S : \A y \in S : x <= y

MaxOf(S) == CHOOSE x \in S : \A y \in S : x >= y

\* str.strip(chars): drop the leading and trailing characters in cs
Strip(s, cs) ==
    LET keep == {i \in DOMAIN s : s[i] \notin cs}
    IN  IF keep = {} THEN <<>> ELSE SubSeq(s, MinOf(keep), MaxOf(keep))

\* s[:n]
Take(s, n) == SubSeq(s, 1, IF Len(s) < n THEN Len(s) ELSE n)

\* "p in s" for strings
Contains(s, p) ==
    \E i \in 0..(Len(s) - Len(p)) : SubSeq(s, i + 1, i + Len(p)) = p

\* re.sub(r'[^\w一-鿿]', '_', s)
ReplaceNonWord(s) ==
    [i \in DOMAIN s |-> IF IsWordChar(s[i]) \/ IsCjk(s[i]) THEN s[i] ELSE "_"]

\* re.sub(r'_+', '_', s)
CollapseUnderscores(s) ==
    LET keep == {i \in DOMAIN s : ~(s[i] = "_" /\ i > 1 /\ s[i - 1] = "_")}
        rank == [i \in DOMAIN s |-> Cardinality({j \in keep : j <= i})]
    IN  [k \in 1..Cardinality(keep) |-> s[CHOOSE i \in keep : rank[i] = k]]

\* s.replace(c, c + c) for a one-character c
DoubleChar(s, c) ==
    LET hits  == {j \in DOMAIN s : s[j] = c}
        start == [i \in DOMAIN s |-> i + Cardinality({j \in hits : j < i})]
    IN  IF hits = {} THEN s
        ELSE [k \in 1..(Len(s) + Cardinality(hits)) |->
                 s[CHOOSE i \in DOMAIN s :
                       start[i] <= k /\ k <= start[i] + (IF i \in hits THEN 1 ELSE 0)]]

(***************************************************************************)
(* validate_sql_identifier, safe_sql_identifier.                           *)
(* A result is [ok, val]: ok = FALSE stands for the ValueError raised.     *)
(***************************************************************************)
MaxIdentLen == 64

dangerous_patterns ==
    << <<"D", "R", "O", "P">>,
       <<"D", "E", "L", "E", "T", "E">>,
       <<"U", "P", "D", "A", "T", "E">>,
       <<"I", "N", "S", "E", "R", "T">>,
       <<"S", "E", "L", "E", "C", "T">>,
       <<"A", "L", "T", "E", "R">>,
       <<"C", "R", "E", "A", "T", "E">>,
       <<"T", "R", "U", "N", "C", "A", "T", "E">>,
       <<"U", "N", "I", "O", "N">>,
       <<"E", "X", "E", "C">>,
       <<"E", "X", "E", "C", "U", "T", "E">>,
       <<"D", "E", "C", "L", "A", "R", "E">>,
       <<"C", "A", "S", "T">>,
       <<"C", "O", "N", "V", "E", "R", "T">>,
       <<"M", "E", "R", "G", "E">>,
       <<";">>,
       <<"-", "-">>,
       <<"/", "*">>,
       <<"*", "/">>,
       <<"X", "P", "_">>,
       <<"S", "P", "_">>,
       <<"O", "P", "E", "N", "R", "O", "W", "S", "E", "T">>,
       <<"O", "P", "E", "N", "Q", "U", "E", "R", "Y">>,
       <<"B", "U", "L", "K">>,
       <<"L", "O", "A", "D", "_", "F", "I", "L", "E">>,
       <<"I", "N", "T", "O", " ", "O", "U", "T", "F", "I", "L", "E">>,
       <<"I", "N", "T", "O", " ", "D", "U", "M", "P", "F", "I", "L", "E">> >>

\* "pattern in name_upper" for some pattern of the blacklist
HasDangerousPattern(name) ==
    LET name_upper == Upper(name)
    IN  \E k \in DOMAIN dangerous_patterns : Contains(name_upper, dangerous_patterns[k])

\* re.match(r'^[a-zA-Z_一-鿿][a-zA-Z0-9_一-鿿]*$', name)
MatchesIdentifier(name) ==
    /\ name /= <<>>
    /\ IsAsciiLetter(name[1]) \/ name[1] = "_" \/ IsCjk(name[1])
    /\ \A i \in DOMAIN name :
          IsAsciiLetter(name[i]) \/ IsAsciiDigit(name[i]) \/ name[i] = "_" \/ IsCjk(name[i])

validate_sql_identifier(name) ==
    LET stripped == Strip(name, Whitespace)
    IN  IF name = <<>> THEN [ok |-> FALSE, val |-> name]
        ELSE IF Len(stripped) > MaxIdentLen THEN [ok |-> FALSE, val |-> name]
        ELSE IF ~MatchesIdentifier(stripped) THEN [ok |-> FALSE, val |-> name]
        ELSE IF HasDangerousPattern(stripped) THEN [ok |-> FALSE, val |-> name]
        ELSE [ok |-> TRUE, val |-> stripped]

safe_sql_identifier(name) ==
    LET validated == validate_sql_identifier(name)
    IN  IF validated.ok
        THEN [ok |-> TRUE, val |-> DoubleChar(DoubleChar(validated.val, "\""), "'")]
        ELSE validated

(***************************************************************************)
(* clean_table_name, sanitize_table_name, sanitize_column_name.            *)
(* A result is [raised, val]: raised = TRUE stands for an exception that   *)
(* leaves the function.                                                    *)
(***************************************************************************)
\* str.encode(): strict UTF-8 refuses a lone surrogate (UnicodeEncodeError)
CanEncode(s) == \A i \in DOMAIN s : s[i] /= LoneSurrogate

\* The position of a character in a fixed enumeration, for Md5Hex8.
CharCode(c) ==
    IF c \in Range(AsciiLower) THEN CHOOSE i \in DOMAIN AsciiLower : AsciiLower[i] = c
    ELSE IF c \in Range(AsciiUpper)
         THEN 26 + (CHOOSE i \in DOMAIN AsciiUpper : AsciiUpper[i] = c)
    ELSE IF c \in Range(AsciiDigits)
         THEN 52 + (CHOOSE i \in DOMAIN AsciiDigits : AsciiDigits[i] = c)
    ELSE IF c = "_" THEN 63
    ELSE IF c = " " THEN 64
    ELSE IF c = ";" THEN 65
    ELSE IF c = LatinSmallEAcute THEN 66
    ELSE IF c = CjkIdeograph THEN 67
    ELSE 68

\* hashlib.md5(s.encode()).hexdigest()[:8].  The digest itself is not
\* computed: what the callers rely on is a deterministic function of s whose
\* value is eight lower-case hexadecimal digits, and this is one.
Md5Hex8(s) ==
    LET pow3 == <<1, 3, 9, 11>>
        term(i, k) == (CharCode(s[i]) * (i + k) * pow3[((i - 1) % 4) + 1]) % 16
        RECURSIVE sum(_, _, _)
        sum(lo, hi, k) ==
            IF lo > hi THEN 0
            ELSE IF lo = hi THEN term(lo, k)
            ELSE (sum(lo, (lo + hi) \div 2, k) + sum(((lo + hi) \div 2) + 1, hi, k)) % 16
        acc(k) == sum(1, Len(s), k) + pow3[(Len(s) % 4) + 1] * ((7 * k + Len(s)) % 16)
    IN  [k \in 1..8 |-> HexDigits[(acc(k) % 16) + 1]]

clean_table_name(name) ==
    LET replaced == ReplaceNonWord(name)
        cleaned  == Strip(CollapseUnderscores(replaced), {"_"})
        prefixed == IF cleaned = <<>> \/ ~(IsAlpha(cleaned[1]) \/ IsCjk(cleaned[1]))
                    THEN <<"T", "_">> \o cleaned
                    ELSE cleaned
    IN  IF name = <<>> THEN <<"T", "_", "d", "e", "f", "a", "u", "l", "t">>
        ELSE Take(prefixed, MaxIdentLen)

default_table == <<"d", "e", "f", "a", "u", "l", "t", "_", "t", "a", "b", "l", "e">>

default_column == <<"d", "e", "f", "a", "u", "l", "t", "_", "c", "o", "l", "u", "m", "n">>

sanitize_table_name(raw_name) ==
    LET checked == safe_sql_identifier(clean_table_name(raw_name))
    IN  IF raw_name = <<>> THEN [raised |-> FALSE, val |-> default_table]
        ELSE IF checked.ok THEN [raised |-> FALSE, val |-> checked.val]
        ELSE IF ~CanEncode(raw_name) THEN [raised |-> TRUE, val |-> raw_name]
        ELSE [raised |-> FALSE,
              val |-> <<"t", "a", "b", "l", "e", "_">> \o Md5Hex8(raw_name)]

sanitize_column_name(raw_name) ==
    LET stripped == Strip(raw_name, Whitespace)
        replaced == ReplaceNonWord(stripped)
        cleaned  == Strip(CollapseUnderscores(replaced), {"_"})
        prefixed == IF cleaned = <<>> \/ ~(IsAlpha(cleaned[1]) \/ IsCjk(cleaned[1]))
                    THEN <<"c", "o", "l", "_">> \o cleaned
                    ELSE cleaned
        checked  == safe_sql_identifier(Take(prefixed, MaxIdentLen))
    IN  IF raw_name = <<>> THEN [raised |-> FALSE, val |-> default_column]
        ELSE IF checked.ok THEN [raised |-> FALSE, val |-> checked.val]
        ELSE IF ~CanEncode(raw_name) THEN [raised |-> TRUE, val |-> raw_name]
        ELSE [raised |-> FALSE,
              val |-> <<"c", "o", "l", "_">> \o Md5Hex8(raw_name)]

(***************************************************************************)
(* Header clean-up of get_excel_info / get_csv_info and the default table  *)
(* name of file_to_database.                                               *)
(***************************************************************************)
\* str(n) for a natural number
RECURSIVE IntToStr(_)
IntToStr(n) ==
    IF n < 10 THEN <<AsciiDigits[n + 1]>>
    ELSE IntToStr(n \div 10) \o <<AsciiDigits[(n % 10) + 1]>>

\* f"Column_{i}"
ColumnN(i) == <<"C", "o", "l", "u", "m", "n", "_">> \o IntToStr(i)

\* the loop "while col in cleaned_header: col = f'{base_col}_{counter}'"
RECURSIVE UniqueName(_, _, _)
UniqueName(base_col, counter, cleaned_header) ==
    LET col == IF counter = 0 THEN base_col
               ELSE base_col \o <<"_">> \o IntToStr(counter)
    IN  IF col \in Range(cleaned_header)
        THEN UniqueName(base_col, counter + 1, cleaned_header)
        ELSE col

\* The loop over the header row; [raised, val] as for sanitize_column_name.
\* A cell that is None is the empty string here: both take the first branch.
RECURSIVE CleanHeaderFrom(_, _, _)
CleanHeaderFrom(header, i, cleaned_header) ==
    IF i > Len(header) THEN [raised |-> FALSE, val |-> cleaned_header]
    ELSE LET blank == Strip(header[i], Whitespace) = <<>>
             san   == sanitize_column_name(header[i])
             col   == IF blank THEN ColumnN(i) ELSE san.val
         IN  IF ~blank /\ san.raised THEN [raised |-> TRUE, val |-> cleaned_header]
             ELSE CleanHeaderFrom(header, i + 1,
                      Append(cleaned_header, UniqueName(col, 0, cleaned_header)))

cleaned_header_of(header) == CleanHeaderFrom(header, 1, <<>>)

\* str.isalnum(), one character
IsAlnum(c) == IsAlpha(c) \/ IsAsciiDigit(c)

\* current_sheet.replace(' ', '_').replace('-', '_').replace('.', '_') and
\* then every character that is neither alphanumeric nor '_' made '_'
NormalizedSheetName(current_sheet) ==
    [i \in DOMAIN current_sheet |->
        IF current_sheet[i] \in {" ", "-", "."} THEN "_"
        ELSE IF IsAlnum(current_sheet[i]) \/ current_sheet[i] = "_" THEN current_sheet[i]
        ELSE "_"]

(***************************************************************************)
(* Dictionaries.  A dict is the sequence of its <<key, value>> items in    *)
(* insertion order, which is the order Python iterates it in.  The empty   *)
(* sequence also stands for None: the code tests both by truth value.      *)
(***************************************************************************)
Keys(d) == {d[i][1] : i \in DOMAIN d}

KeyList(d) == [i \in DOMAIN d |-> d[i][1]]

ValueList(d) == [i \in DOMAIN d |-> d[i][2]]

Lookup(d, k) == d[CHOOSE i \in DOMAIN d : d[i][1] = k][2]

\* d[k] = v
Store(d, k, v) ==
    IF k \in Keys(d)
    THEN [i \in DOMAIN d |-> IF d[i][1] = k THEN <<k, v>> ELSE d[i]]
    ELSE Append(d, <<k, v>>)

\* [x for x in s if x in S], as positions of s
RECURSIVE FilterIdx(_, _, _)
FilterIdx(s, S, i) ==
    IF i > Len(s) THEN <<>>
    ELSE (IF s[i] \in S THEN <<i>> ELSE <<>>) \o FilterIdx(s, S, i + 1)

RECURSIVE Flatten(_)
Flatten(ss) == IF ss = <<>> THEN <<>> ELSE Head(ss) \o Flatten(Tail(ss))

(***************************************************************************)
(* State of one run of file_to_database over one sheet.                    *)
(***************************************************************************)
VARIABLES
    cfg,                  \* the arguments of the call and the source file
    sheets_to_process,    \* the sheets the loop of line 1958 has not reached yet
    field_mode,           \* the parameter field_mode, reassigned at line 2002
    pc,                   \* where the run is
    conn,                 \* the backend connection: "none", "open", "closed"
    headers,              \* sheet_info['headers']
    table_name,
    table_exists,
    excel_to_db_mapping,
    used_headers,
    tasks,
    fut,                  \* the futures: chunk_id -> state and returned rows
    data_chunks_dict,
    processed_rows,
    completed_chunks,
    chunk_data_only,
    w,                    \* the locals of write_data
    db,                   \* the tables of the backend: name -> columns, rows
    txn,                  \* rows inserted in the open transaction
    sql,                  \* the identifiers interpolated into SQL text so far
    result,               \* the dictionary file_to_database returns
    san_in,               \* an identifier handed to the sanitizers
    san_out,              \* what the sanitizers returned for it
    fn_args,              \* the arguments of a function applied on its own
    fn_ret                \* what it returned

sheetVars == <<headers, table_name, table_exists, excel_to_db_mapping, used_headers,
               field_mode>>

poolVars == <<tasks, fut, data_chunks_dict, processed_rows, completed_chunks>>

writeVars == <<chunk_data_only, w, txn>>

sanVars == <<san_in, san_out, fn_args, fn_ret>>

vars == <<cfg, sheets_to_process, pc, conn, sheetVars, poolVars, writeVars, db, sql, result, sanVars>>

(***************************************************************************)
(* Bounds of the model and the constants of the program.                   *)
(***************************************************************************)
\* most rows a source has and most rows an estimate says
MaxRows == 5

\* largest chunk_size tried
MaxChunkSize == 2

\* worker processes of the pool (max_workers)
MaxWorkers == 2

\* most worker tasks that fail in one run
MaxWorkerFailures == 1

\* longest short identifier handed to the sanitizers
MaxNameLen == 3

\* SQLiteDatabase.write_data: max_batch_size = 50000.  The model counts rows
\* one by one, so the batch constants are scaled down: 50000 rows become 3,
\* the MySQL batch of 5000 rows becomes 1, and "every 10 batches" becomes
\* every 3.  The chunk sizes tried lie below the SQLite threshold, as the
\* default chunk size of 20000 does.
max_batch_size == 3

\* MySQLDatabase.write_data: batch_size = 5000
mysql_batch_size == 1

\* MySQLDatabase.write_data: "processed_batches % 10 == 0"
commit_every_batches == 3

\* file_to_database: max_indices=3
default_max_indices == 3

(***************************************************************************)
(* The source file.  Row i (from 0) of the data has one cell per header;   *)
(* cell j of row i is the pair <<i, j>>, so every cell is told apart.      *)
(***************************************************************************)
\* the header line a source with a header row starts with
HeaderLines == IF cfg.file_type = "excel" \/ cfg.has_header THEN 1 ELSE 0

\* A cell that holds nothing (None for openpyxl, NaN for pandas).
NoneCell == <<-3, -3>>

\* Whether the sheet cell (row, col), counted from 1 as openpyxl does, lies in
\* the merged range rng = <<min_row, min_col, max_row, max_col>>.
InRange(rng, row, col) ==
    /\ rng[1] <= row /\ row <= rng[3]
    /\ rng[2] <= col /\ col <= rng[4]

\* A workbook keeps the value of a merged range in its top-left cell only:
\* the other cells of the range read as None.
IsMergedAway(row, col) ==
    \E k \in DOMAIN cfg.merged_ranges :
        /\ InRange(cfg.merged_ranges[k], row, col)
        /\ <<row, col>> /= <<cfg.merged_ranges[k][1], cfg.merged_ranges[k][2]>>

\* Data row i (from 0) of the source: sheet row i + 2 of a workbook.
DataRow(i) ==
    [j \in 1..Len(cfg.raw_headers) |->
        IF cfg.file_type = "excel" /\ IsMergedAway(i + 2, j) THEN NoneCell ELSE <<i, j>>]

\* The line that a reader not told about a header would return for line 0.
HeaderAsRow == [j \in 1..Len(cfg.raw_headers) |-> <<-1, j>>]

\* pd.read_excel / pd.read_csv(skiprows=skiprows, nrows=nrows, header=None):
\* the lines skiprows .. skiprows + nrows - 1 of the file, as far as it goes
ReadWindow(skiprows, nrows) ==
    LET total == HeaderLines + cfg.n_rows
        last  == IF skiprows + nrows < total THEN skiprows + nrows ELSE total
        line(l) == IF l < HeaderLines THEN HeaderAsRow ELSE DataRow(l - HeaderLines)
    IN  IF skiprows >= last THEN <<>>
        ELSE [k \in 1..(last - skiprows) |-> line(skiprows + k - 1)]

(***************************************************************************)
(* The backend.  db is the set of its tables, [name, cols, rows]; a stored *)
(* row is [cols, vals]: the column list of the INSERT that wrote it and    *)
(* the values bound to those columns.                                      *)
(***************************************************************************)
TableNames(d) == {t.name : t \in d}

TableOf(d, name) == CHOOSE t \in d : t.name = name

Distinct(s) == \A i, j \in DOMAIN s : i /= j => s[i] /= s[j]

\* A handler that leaves the open transaction in the table.
RollbackKeepsOpen(rows, open) == rows \o open

\* self.conn.rollback() / cursor.execute("ROLLBACK"): the open transaction
\* is undone and the table keeps what was committed
Rollback(rows, open) == rows

\* conn.commit() / cursor.execute("COMMIT")
Commit(rows, open) == rows \o open

\* The table with the open transaction committed.
CommitInto(d, name, open) ==
    {IF t.name = name THEN [t EXCEPT !.rows = Commit(t.rows, open)] ELSE t : t \in d}

\* The table after the error handler of write_data ran.
RollbackInto(d, name, open) ==
    {IF t.name = name THEN [t EXCEPT !.rows = Rollback(t.rows, open)] ELSE t : t \in d}

\* drop_table: the name is sanitized again, the statement is
\* DROP TABLE IF EXISTS, and every exception is caught (returns False).
drop_table_name(name) == sanitize_table_name(name)

drop_table(d, name) ==
    IF drop_table_name(name).raised THEN d
    ELSE {t \in d : t.name /= drop_table_name(name).val}

\* get_table_columns: the SQLite variant reads PRAGMA table_info of the
\* name sanitized again (any exception gives {}), the MySQL variant asks
\* INFORMATION_SCHEMA for the name as given.  The result is the column list.
get_table_columns(d, name) ==
    LET asked == IF cfg.db_type = "mysql" THEN [raised |-> FALSE, val |-> name]
                 ELSE sanitize_table_name(name)
    IN  IF asked.raised \/ asked.val \notin TableNames(d) THEN <<>>
        ELSE TableOf(d, asked.val).cols

\* The column definitions of create_table.
column_defs(hdrs, has_pk) == IF has_pk THEN hdrs ELSE <<<<"i", "d">>>> \o hdrs

\* create_table raises when headers[0] does not exist, and when the backend
\* refuses the statement: a column list with two equal names (the backends
\* compare column names without case).
create_table_raises(d, name, hdrs, has_pk) ==
    \/ has_pk /\ hdrs = <<>>
    \/ /\ name \notin TableNames(d)
       /\ ~Distinct([i \in DOMAIN column_defs(hdrs, has_pk) |->
                        Upper(column_defs(hdrs, has_pk)[i])])

\* CREATE TABLE IF NOT EXISTS
create_table(d, name, hdrs, has_pk) ==
    IF name \in TableNames(d) THEN d
    ELSE d \cup {[name |-> name, cols |-> column_defs(hdrs, has_pk), rows |-> <<>>,
                  indexes |-> <<>>]}

\* Whether the backend accepts INSERT INTO name (cols) VALUES (...) for rows.
InsertAccepted(d, name, cols, rows) ==
    /\ name \in TableNames(d)
    /\ cols /= <<>>
    /\ Distinct(cols)
    /\ \A i \in DOMAIN cols : cols[i] \in Range(TableOf(d, name).cols)
    /\ \A i \in DOMAIN rows : Len(rows[i]) = Len(cols)

StoredRows(cols, rows) == [i \in DOMAIN rows |-> [cols |-> cols, vals |-> rows[i]]]

\* create_indices: the candidate columns.
index_keywords ==
    << <<"i", "d">>, <<"c", "o", "d", "e">>, <<"n", "a", "m", "e">>,
       <<"t", "y", "p", "e">>, <<"d", "a", "t", "e">>, <<"t", "i", "m", "e">>,
       <<"k", "e", "y">>, <<"n", "u", "m">>, <<"u", "u", "i", "d">>, <<"n", "o">> >>

\* str.lower(), one character
LowerChar(c) ==
    IF c \in Range(AsciiUpper)
    THEN AsciiLower[CHOOSE i \in DOMAIN AsciiUpper : AsciiUpper[i] = c]
    ELSE c

Lower(s) == [i \in DOMAIN s |-> LowerChar(s[i])]

IsIndexCandidate(col) ==
    \E k \in DOMAIN index_keywords : Contains(Lower(col), index_keywords[k])

index_candidates(hdrs, max_indices) ==
    LET idx == FilterIdx(hdrs, {h \in Range(hdrs) : IsIndexCandidate(h)}, 1)
    IN  [k \in 1..(IF Len(idx) < max_indices THEN Len(idx) ELSE max_indices) |-> hdrs[idx[k]]]

\* The table and column names create_indices puts into CREATE INDEX text; an
\* exception of the sanitizers is caught by create_indices (returns False).
create_indices_idents(name, hdrs, max_indices) ==
    LET cands == index_candidates(hdrs, max_indices)
        tab   == sanitize_table_name(name)
        RECURSIVE upto(_)
        upto(k) == IF k > Len(cands) \/ tab.raised \/ sanitize_column_name(cands[k]).raised
                   THEN {}
                   ELSE {tab.val, sanitize_column_name(cands[k]).val} \cup upto(k + 1)
    IN  upto(1)

\* The index idx_<named>_<idx> on a column; the indexes of a table are kept
\* with the table.
Index(named, idx, col) == [named |-> named, idx |-> idx, col |-> col]

\* SQLite keeps the index names of all tables in one namespace.
IndexNames(d) ==
    UNION {{<<t.indexes[k].named, t.indexes[k].idx>> : k \in DOMAIN t.indexes} : t \in d}

\* Whether the index name of the statement is already there: SQLite's
\* CREATE INDEX IF NOT EXISTS (line 1347), MySQL's look-up in
\* information_schema.statistics for the table name as given (lines 1718-1727).
index_exists(d, name, safe_table_name, idx) ==
    IF cfg.db_type = "sqlite" THEN <<safe_table_name, idx>> \in IndexNames(d)
    ELSE /\ name \in TableNames(d)
         /\ \E k \in DOMAIN TableOf(d, name).indexes :
                /\ TableOf(d, name).indexes[k].named = name
                /\ TableOf(d, name).indexes[k].idx = idx

\* The table with one more index.
AddIndex(d, name, ix) ==
    {IF t.name = name THEN [t EXCEPT !.indexes = Append(@, ix)] ELSE t : t \in d}

\* The loop of create_indices from candidate k on (SQLite lines 1342-1350,
\* MySQL lines 1716-1733): both names are sanitized again; an exception of
\* the sanitizers or of the backend (no such table, no such column) ends the
\* loop in the handler, and the indexes created before it stay.
RECURSIVE create_indices_from(_, _, _, _)
create_indices_from(d, name, cands, k) ==
    IF k > Len(cands) THEN d
    ELSE LET tab == sanitize_table_name(name)
             col == sanitize_column_name(cands[k])
         IN  IF cfg.db_type = "sqlite" /\ (tab.raised \/ col.raised) THEN d
             ELSE IF cfg.db_type = "sqlite" /\ tab.val \notin TableNames(d) THEN d
             ELSE IF index_exists(d, name, tab.val, k - 1)
             THEN create_indices_from(d, name, cands, k + 1)
             ELSE IF tab.raised \/ col.raised THEN d
             ELSE IF \/ tab.val \notin TableNames(d)
                     \/ col.val \notin Range(TableOf(d, tab.val).cols)
             THEN d
             ELSE create_indices_from(AddIndex(d, tab.val, Index(tab.val, k - 1, col.val)),
                                      name, cands, k + 1)

\* create_indices: the backend after the call.
create_indices(d, name, hdrs, max_indices) ==
    create_indices_from(d, name, index_candidates(hdrs, max_indices), 1)

\* One statement's identifiers, added to the log.
Stmt(kind, idents) == [stmt |-> kind, idents |-> idents]

(***************************************************************************)
(* file_to_database, up to the chunk tasks.                                *)
(***************************************************************************)
Running == [returned |-> FALSE, success |-> FALSE, total_rows |-> 0,
            sheet_results |-> <<>>, error |-> "none"]

\* The handler "except Exception as e" of file_to_database (lines 2218-2223).
Failure(error) == [returned |-> TRUE, success |-> FALSE, total_rows |-> 0,
                   sheet_results |-> <<>>, error |-> error]

w0 == [db_headers |-> <<>>, mapped_indices |-> <<>>, rows |-> <<>>, chunk_i |-> 0,
       offset |-> 0, batch_size |-> 0, processed_batches |-> 0, total_rows |-> 0]

\* Lines 1923-1969: the source is inspected (the header row cleaned), the
\* connection opened, the sheet's headers read.  An exception of the header
\* clean-up leaves get_excel_info / get_csv_info before db.connect().
Inspect ==
    /\ pc = "start"
    /\ LET h == cleaned_header_of(cfg.raw_headers)
       IN  IF h.raised
           THEN /\ pc' = "failed"
                /\ result' = Failure("inspect")
                /\ UNCHANGED <<conn, headers>>
           ELSE /\ pc' = "resolve"
                /\ conn' = "open"
                /\ headers' = h.val
                /\ UNCHANGED result
    /\ UNCHANGED <<cfg, sheets_to_process, table_name, table_exists, excel_to_db_mapping,
                   used_headers,
                   field_mode, poolVars, writeVars, db, sql, sanVars>>

\* Lines 1971-1984: table mapping > target table > normalized sheet name.
\* One sheet is processed, so len(sheets_to_process) == 1.
raw_table_name_of(c) ==
    IF c.file_type = "excel" /\ c.table_mapping /= <<>> THEN c.table_mapping[1]
    ELSE IF c.target_table /= <<>> THEN c.target_table
    ELSE NormalizedSheetName(c.current_sheet)

raw_table_name == raw_table_name_of(cfg)

\* Line 1987.
resolved_table_name == sanitize_table_name(raw_table_name)

\* Lines 1971-2014.
ResolveTable ==
    /\ pc = "resolve"
    /\ IF resolved_table_name.raised
       THEN /\ pc' = "failed"
            /\ result' = Failure("table name")
            /\ UNCHANGED sheetVars
       ELSE /\ pc' = "prepare"
            /\ table_name' = resolved_table_name.val
            /\ table_exists' = (resolved_table_name.val \in TableNames(db))
            /\ IF cfg.field_mapping /= <<>>
               THEN /\ field_mode' = "mapping"
                    /\ excel_to_db_mapping' = cfg.field_mapping
                    /\ used_headers' = KeyList(cfg.field_mapping)
               ELSE /\ excel_to_db_mapping' = <<>>
                    /\ used_headers' = headers
                    /\ UNCHANGED field_mode
            /\ UNCHANGED <<headers, result>>
    /\ UNCHANGED <<cfg, sheets_to_process, conn, poolVars, writeVars, db, sql, sanVars>>

\* [h for h in headers if h in table_columns], as a dict {h: h}
matching_fields(cols) ==
    LET idx == FilterIdx(headers, Range(cols), 1)
    IN  [k \in DOMAIN idx |-> <<headers[idx[k]], headers[idx[k]]>>]

\* the mapping without the items whose target is no column of the table
existing_targets(mapping, cols) ==
    LET idx == FilterIdx(ValueList(mapping), Range(cols), 1)
    IN  [k \in DOMAIN idx |-> mapping[idx[k]]]

\* Lines 2016-2064.  "skip" is the continue statement: the sheet is left.
PrepareTable ==
    /\ pc = "prepare"
    /\ IF table_exists /\ cfg.mode = "overwrite"
       THEN /\ db' = drop_table(db, table_name)
            /\ sql' = IF drop_table_name(table_name).raised THEN sql
                      ELSE sql \cup {Stmt("DROP TABLE", {drop_table_name(table_name).val})}
            /\ table_exists' = FALSE
            /\ pc' = "create"
            /\ UNCHANGED <<excel_to_db_mapping, used_headers>>
       ELSE IF table_exists /\ field_mode = "match-only"
       THEN LET found == matching_fields(get_table_columns(db, table_name))
            IN  /\ IF found /= <<>>
                   THEN /\ excel_to_db_mapping' = found
                        /\ used_headers' = KeyList(found)
                        /\ pc' = "create"
                   ELSE /\ pc' = "finish"
                        /\ UNCHANGED <<excel_to_db_mapping, used_headers>>
                /\ UNCHANGED <<db, sql, table_exists>>
       ELSE IF table_exists /\ field_mode = "mapping" /\ excel_to_db_mapping /= <<>>
       THEN LET kept == existing_targets(excel_to_db_mapping,
                                         get_table_columns(db, table_name))
            IN  /\ excel_to_db_mapping' = kept
                /\ IF kept /= <<>>
                   THEN /\ used_headers' = KeyList(kept)
                        /\ pc' = "create"
                   ELSE /\ pc' = "finish"
                        /\ UNCHANGED used_headers
                /\ UNCHANGED <<db, sql, table_exists>>
       ELSE /\ pc' = "create"
            /\ UNCHANGED <<db, sql, table_exists, excel_to_db_mapping, used_headers>>
    /\ UNCHANGED <<cfg, sheets_to_process, conn, headers, table_name, field_mode, poolVars,
                   writeVars,
                   result, sanVars>>

\* Lines 2071-2101: the headers the table is created with.
created_headers ==
    IF field_mode = "mapping" /\ excel_to_db_mapping /= <<>>
    THEN ValueList(excel_to_db_mapping)
    ELSE headers

\* has_pk: whether the type detected for the first column carries PRIMARY KEY.
\* The sample decides it; here the source file says so (cfg.natural_pk).
has_pk == cfg.natural_pk /\ created_headers /= <<>>

\* Lines 2066-2101.
CreateTable ==
    /\ pc = "create"
    /\ IF table_exists
       THEN /\ pc' = "tasks"
            /\ UNCHANGED <<db, sql, result>>
       ELSE IF create_table_raises(db, table_name, created_headers, has_pk)
       THEN /\ pc' = "failed"
            /\ result' = Failure("create table")
            /\ sql' = sql \cup {Stmt("CREATE TABLE", {table_name} \cup Range(created_headers))}
            /\ UNCHANGED db
       ELSE /\ pc' = "tasks"
            /\ db' = create_table(db, table_name, created_headers, has_pk)
            /\ sql' = sql \cup {Stmt("CREATE TABLE", {table_name} \cup Range(created_headers))}
            /\ UNCHANGED result
    /\ UNCHANGED <<cfg, sheets_to_process, conn, sheetVars, poolVars, writeVars, sanVars>>

(***************************************************************************)
(* The chunk tasks, the worker pool and the reassembly buffer.             *)
(***************************************************************************)
\* Line 2111: (estimated_rows + chunk_size - 1) // chunk_size
total_chunks == (cfg.estimated_rows + cfg.chunk_size - 1) \div cfg.chunk_size

\* The header row counted once for every chunk up to this one.
skiprows_header_per_chunk(chunk_id) ==
    chunk_id * cfg.chunk_size
        + (IF cfg.file_type = "excel" \/ (cfg.file_type = "csv" /\ cfg.has_header)
           THEN chunk_id + 1 ELSE 0)

\* Lines 2128-2130: the rows a task skips.
skiprows_of(chunk_id) ==
    chunk_id * cfg.chunk_size
        + (IF cfg.file_type = "excel" \/ (cfg.file_type = "csv" /\ cfg.has_header)
           THEN 1 ELSE 0)

\* Lines 2125-2140: the tasks are built and all submitted to the pool; future
\* k + 1 is the one of chunk k.
BuildTasks ==
    /\ pc = "tasks"
    /\ tasks' = [k \in 1..total_chunks |->
                    [chunk_id |-> k - 1, skiprows |-> skiprows_of(k - 1),
                     nrows |-> cfg.chunk_size]]
    /\ fut' = [k \in 1..total_chunks |->
                  [state |-> "pending", data |-> <<>>, failed |-> FALSE]]
    /\ data_chunks_dict' = <<>>
    /\ processed_rows' = 0
    /\ completed_chunks' = 0
    /\ pc' = "pool"
    /\ UNCHANGED <<cfg, sheets_to_process, conn, sheetVars, writeVars, db, sql, result,
                   sanVars>>

\* A worker whose failure does not empty its result.
process_chunk_keeps_rows(task, raised) == ReadWindow(task.skiprows, task.nrows)

\* Lines 870-894, one merged range: the rows of the range are brought into
\* the chunk by subtracting skiprows, clipped to the chunk, and every cell of
\* the clipped range is given the value of its first cell.  Rows and columns
\* of df_chunk count from 0 in the code and from 1 here; an IndexError of
\* iloc is caught and leaves the chunk as it is.
fill_merged_range(df_chunk, rng, skiprows) ==
    LET shape0        == Len(df_chunk)
        shape1        == IF df_chunk = <<>> THEN 0 ELSE Len(df_chunk[1])
        chunk_min_row == IF rng[1] - skiprows > 0 THEN rng[1] - skiprows ELSE 0
        chunk_max_row == IF rng[3] - skiprows < shape0 - 1 THEN rng[3] - skiprows
                         ELSE shape0 - 1
        df_min_col    == rng[2] - 1
        df_max_col    == IF rng[4] - 1 < shape1 - 1 THEN rng[4] - 1 ELSE shape1 - 1
    IN  IF /\ rng[1] - skiprows < shape0
           /\ rng[3] - skiprows >= 0
           /\ df_min_col >= 0
           /\ chunk_min_row < shape0
           /\ df_min_col < shape1
        THEN [r \in 1..shape0 |->
                [c \in 1..shape1 |->
                    IF /\ chunk_min_row <= r - 1 /\ r - 1 <= chunk_max_row
                       /\ df_min_col <= c - 1 /\ c - 1 <= df_max_col
                    THEN df_chunk[chunk_min_row + 1][df_min_col + 1]
                    ELSE df_chunk[r][c]]]
        ELSE df_chunk

\* Lines 868-894: the loop over merged_ranges.
RECURSIVE fill_merged(_, _, _)
fill_merged(df_chunk, merged_ranges, skiprows) ==
    IF merged_ranges = <<>> THEN df_chunk
    ELSE fill_merged(fill_merged_range(df_chunk, Head(merged_ranges), skiprows),
                     Tail(merged_ranges), skiprows)

\* Line 909: df_chunk.dropna(how='all')
dropna_all(df_chunk) ==
    LET kept == FilterIdx(df_chunk,
                          {r \in Range(df_chunk) : \E c \in DOMAIN r : r[c] /= NoneCell}, 1)
    IN  [k \in DOMAIN kept |-> df_chunk[kept[k]]]

\* The chunk as read and, for a workbook, with its merged ranges filled.
read_chunk(task) ==
    IF cfg.file_type = "excel"
    THEN fill_merged(ReadWindow(task.skiprows, task.nrows), cfg.merged_ranges,
                     task.skiprows)
    ELSE ReadWindow(task.skiprows, task.nrows)

\* process_chunk: the rows of the task's window, or, when anything raised
\* (lines 996-998), no rows.
process_chunk(task, raised) ==
    IF raised THEN <<>> ELSE dropna_all(read_chunk(task))

\* A free worker process takes the next task of the queue.
StartChunk(k) ==
    /\ pc = "pool"
    /\ fut[k].state = "pending"
    /\ \A j \in 1..(k - 1) : fut[j].state /= "pending"
    /\ Cardinality({j \in DOMAIN fut : fut[j].state = "running"}) < cfg.max_workers
    /\ fut' = [fut EXCEPT ![k].state = "running"]
    /\ UNCHANGED <<cfg, sheets_to_process, pc, conn, sheetVars, tasks, data_chunks_dict,
                   processed_rows,
                   completed_chunks, writeVars, db, sql, result, sanVars>>

\* The worker returns (chunk_id, processed_data), or (chunk_id, []) when it failed.
FinishChunk(k, raised) ==
    /\ pc = "pool"
    /\ fut[k].state = "running"
    /\ raised => Cardinality({j \in DOMAIN fut : fut[j].failed}) < MaxWorkerFailures
    /\ fut' = [fut EXCEPT ![k] = [state |-> "done",
                                   data |-> process_chunk(tasks[k], raised),
                                   failed |-> raised]]
    /\ UNCHANGED <<cfg, sheets_to_process, pc, conn, sheetVars, tasks, data_chunks_dict,
                   processed_rows,
                   completed_chunks, writeVars, db, sql, result, sanVars>>

\* A buffer that stores the empty results too.
collect_always(d, chunk_id, chunk_data) == Store(d, chunk_id, chunk_data)

\* Lines 2147-2149: "if chunk_data: data_chunks_dict[chunk_id] = chunk_data"
collect_into(d, chunk_id, chunk_data) ==
    IF chunk_data /= <<>> THEN Store(d, chunk_id, chunk_data) ELSE d

\* Lines 2145-2156: one turn of the loop over as_completed(futures), which
\* hands over the finished futures in no particular order.
Collect(k) ==
    /\ pc = "pool"
    /\ fut[k].state = "done"
    /\ fut' = [fut EXCEPT ![k].state = "collected"]
    /\ data_chunks_dict' = collect_into(data_chunks_dict, tasks[k].chunk_id, fut[k].data)
    /\ processed_rows' = processed_rows + Len(fut[k].data)
    /\ completed_chunks' = completed_chunks + 1
    /\ UNCHANGED <<cfg, sheets_to_process, pc, conn, sheetVars, tasks, writeVars, db, sql,
                   result, sanVars>>

\* The items as the dictionary holds them: in the order the futures completed.
items_in_completion_order(d) == d

\* sorted(data_chunks_dict.items()): the items in ascending chunk_id
RECURSIVE sorted_items(_)
sorted_items(d) ==
    IF d = <<>> THEN <<>>
    ELSE LET m == CHOOSE i \in DOMAIN d : \A j \in DOMAIN d : d[i][1] <= d[j][1]
         IN  <<d[m]>> \o sorted_items([k \in 1..(Len(d) - 1) |->
                                          IF k < m THEN d[k] ELSE d[k + 1]])

(***************************************************************************)
(* write_data.                                                             *)
(***************************************************************************)
\* The target columns in the order of the mapping's items.
db_headers_in_mapping_order(hdrs, field_mapping) ==
    LET idx == FilterIdx(KeyList(field_mapping), Range(hdrs), 1)
    IN  IF field_mapping /= <<>>
        THEN [k \in DOMAIN idx |-> field_mapping[idx[k]][2]]
        ELSE hdrs

\* [field_mapping[h] for h in headers if h in field_mapping], or the headers
db_headers_of(hdrs, field_mapping) ==
    LET idx == FilterIdx(hdrs, Keys(field_mapping), 1)
    IN  IF field_mapping /= <<>>
        THEN [k \in DOMAIN idx |-> Lookup(field_mapping, hdrs[idx[k]])]
        ELSE hdrs

\* [i for i, h in enumerate(headers) if h in field_mapping]
mapped_indices_of(hdrs, field_mapping) == FilterIdx(hdrs, Keys(field_mapping), 1)

\* SQLite, lines 1273-1293: the rows of one chunk as they are inserted.
sqlite_filtered(chunk_data, field_mapping, idx) ==
    IF field_mapping /= <<>>
    THEN [r \in DOMAIN chunk_data |-> [k \in DOMAIN idx |-> chunk_data[r][idx[k]]]]
    ELSE chunk_data

\* MySQL, lines 1655-1666: all rows as they are inserted.
mysql_filtered(all_data, field_mapping, idx) ==
    IF field_mapping /= <<>> /\ idx /= <<>>
    THEN LET long == FilterIdx(all_data,
                        {r \in Range(all_data) : Len(r) > MaxOf(Range(idx)) - 1}, 1)
         IN  [r \in DOMAIN long |-> [k \in DOMAIN idx |-> all_data[long[r]][idx[k]]]]
    ELSE all_data

\* Lines 2158-2164 and the head of write_data (SQLite 1239-1268, MySQL
\* 1604-1652): the chunks are put in order, the INSERT text is built, and the
\* MySQL variant flattens and filters all rows (returning 0 when there is none).
BeginWrite ==
    /\ pc = "pool"
    /\ \A k \in DOMAIN fut : fut[k].state = "collected"
    /\ LET ordered == ValueList(sorted_items(data_chunks_dict))
           cols    == db_headers_of(headers, excel_to_db_mapping)
           idx     == mapped_indices_of(headers, excel_to_db_mapping)
           rows    == IF cfg.db_type = "mysql"
                      THEN mysql_filtered(Flatten(ordered), excel_to_db_mapping, idx)
                      ELSE <<>>
       IN  /\ chunk_data_only' = ordered
           /\ w' = [w0 EXCEPT !.db_headers = cols, !.mapped_indices = idx,
                              !.rows = rows, !.chunk_i = 1]
           /\ pc' = IF cfg.db_type = "mysql" /\ rows = <<>> THEN "index" ELSE "write"
           /\ sql' = sql \cup {Stmt("INSERT", {table_name} \cup Range(cols))}
    /\ txn' = <<>>
    /\ UNCHANGED <<cfg, sheets_to_process, conn, sheetVars, poolVars, db, result, sanVars>>

\* The rows the next executemany is handed.
next_batch ==
    IF cfg.db_type = "sqlite"
    THEN IF w.chunk_i <= Len(chunk_data_only)
         THEN sqlite_filtered(chunk_data_only[w.chunk_i], excel_to_db_mapping,
                              w.mapped_indices)
         ELSE <<>>
    ELSE SubSeq(w.rows, w.offset + 1,
                IF w.offset + mysql_batch_size < Len(w.rows)
                THEN w.offset + mysql_batch_size ELSE Len(w.rows))

more_to_insert ==
    IF cfg.db_type = "sqlite" THEN w.chunk_i <= Len(chunk_data_only)
    ELSE w.offset < Len(w.rows)

\* SQLite, lines 1270-1293: cursor.executemany of one chunk.
SqliteInsert ==
    /\ pc = "write"
    /\ cfg.db_type = "sqlite"
    /\ more_to_insert
    /\ InsertAccepted(db, table_name, w.db_headers, next_batch)
    /\ txn' = txn \o StoredRows(w.db_headers, next_batch)
    /\ w' = [w EXCEPT !.total_rows = @ + Len(next_batch),
                      !.batch_size = @ + Len(next_batch)]
    /\ pc' = "inserted"
    /\ UNCHANGED <<cfg, sheets_to_process, conn, sheetVars, poolVars, chunk_data_only, db,
                   sql, result,
                   sanVars>>

\* SQLite, lines 1295-1299: the commit at the threshold, then the next chunk.
SqliteBatchCommit ==
    /\ pc = "inserted"
    /\ cfg.db_type = "sqlite"
    /\ IF w.batch_size >= max_batch_size
       THEN /\ db' = CommitInto(db, table_name, txn)
            /\ txn' = <<>>
            /\ w' = [w EXCEPT !.batch_size = 0, !.chunk_i = @ + 1]
       ELSE /\ w' = [w EXCEPT !.chunk_i = @ + 1]
            /\ UNCHANGED <<db, txn>>
    /\ pc' = "write"
    /\ UNCHANGED <<cfg, sheets_to_process, conn, sheetVars, poolVars, chunk_data_only, sql,
                   result, sanVars>>

\* SQLite, lines 1301-1315: the commit of what is left.
SqliteFinalCommit ==
    /\ pc = "write"
    /\ cfg.db_type = "sqlite"
    /\ ~more_to_insert
    /\ db' = CommitInto(db, table_name, txn)
    /\ txn' = <<>>
    /\ pc' = "index"
    /\ UNCHANGED <<cfg, sheets_to_process, conn, sheetVars, poolVars, chunk_data_only, w,
                   sql, result,
                   sanVars>>

\* MySQL, lines 1670-1674: cursor.executemany of one batch.
MysqlInsert ==
    /\ pc = "write"
    /\ cfg.db_type = "mysql"
    /\ more_to_insert
    /\ InsertAccepted(db, table_name, w.db_headers, next_batch)
    /\ txn' = txn \o StoredRows(w.db_headers, next_batch)
    /\ w' = [w EXCEPT !.total_rows = @ + Len(next_batch),
                      !.processed_batches = @ + 1]
    /\ pc' = "inserted"
    /\ UNCHANGED <<cfg, sheets_to_process, conn, sheetVars, poolVars, chunk_data_only, db,
                   sql, result,
                   sanVars>>

\* MySQL, lines 1676-1683: the commit every so many batches and after the
\* last one, then the next batch.
MysqlBatchCommit ==
    /\ pc = "inserted"
    /\ cfg.db_type = "mysql"
    /\ IF \/ w.processed_batches % commit_every_batches = 0
          \/ w.offset + mysql_batch_size >= Len(w.rows)
       THEN /\ db' = CommitInto(db, table_name, txn)
            /\ txn' = <<>>
       ELSE UNCHANGED <<db, txn>>
    /\ w' = [w EXCEPT !.offset = @ + mysql_batch_size]
    /\ pc' = IF w.offset + mysql_batch_size >= Len(w.rows) THEN "index" ELSE "write"
    /\ UNCHANGED <<cfg, sheets_to_process, conn, sheetVars, poolVars, chunk_data_only, sql,
                   result, sanVars>>

\* executemany raises after done rows of the batch went in: the backend
\* refused the statement (then no row went in) or failed on a row.  The
\* handler of write_data rolls back and raises again (SQLite 1304-1318,
\* MySQL 1684-1692), and file_to_database returns the failure.
InsertFails(done) ==
    /\ pc = "write"
    /\ more_to_insert
    /\ done < Len(next_batch)
    /\ ~InsertAccepted(db, table_name, w.db_headers, next_batch) => done = 0
    /\ db' = RollbackInto(db, table_name,
                          txn \o StoredRows(w.db_headers, SubSeq(next_batch, 1, done)))
    /\ txn' = <<>>
    /\ result' = Failure("write")
    /\ pc' = "failed"
    /\ UNCHANGED <<cfg, sheets_to_process, conn, sheetVars, poolVars, chunk_data_only, w,
                   sql, sanVars>>

\* Lines 2167-2187: the indices, then the sheet's entry of the results.
CreateIndices ==
    /\ pc = "index"
    /\ sql' = IF cfg.mode = "overwrite" \/ ~table_exists
              THEN LET ids == create_indices_idents(table_name, headers, cfg.max_indices)
                   IN  IF ids = {} THEN sql ELSE sql \cup {Stmt("CREATE INDEX", ids)}
              ELSE sql
    /\ result' = [result EXCEPT
                     !.sheet_results = Append(@, [sheet_name |-> cfg.current_sheet,
                                                  table_name |-> table_name,
                                                  rows_processed |-> processed_rows]),
                     !.total_rows = @ + processed_rows]
    /\ db' = IF cfg.mode = "overwrite" \/ ~table_exists
             THEN create_indices(db, table_name, headers, cfg.max_indices)
             ELSE db
    /\ pc' = "finish"
    /\ UNCHANGED <<cfg, sheets_to_process, conn, sheetVars, poolVars, writeVars, sanVars>>

\* Lines 1958-1969, from the second sheet on: the loop takes the next sheet
\* and reads its headers; an exception of the header clean-up leaves the loop
\* for the handler of lines 2218-2223.
NextSheet ==
    /\ pc = "finish"
    /\ sheets_to_process /= <<>>
    /\ cfg' = Head(sheets_to_process)
    /\ sheets_to_process' = Tail(sheets_to_process)
    /\ LET h == cleaned_header_of(Head(sheets_to_process).raw_headers)
       IN  IF h.raised
           THEN /\ pc' = "failed"
                /\ result' = Failure("inspect")
                /\ UNCHANGED headers
           ELSE /\ pc' = "resolve"
                /\ headers' = h.val
                /\ UNCHANGED result
    /\ UNCHANGED <<conn, table_name, table_exists, excel_to_db_mapping, used_headers,
                   field_mode, poolVars, writeVars, db, sql, sanVars>>

\* Lines 2189-2216, after the last sheet: optimize, verify, disconnect, and
\* the summary.
Finish ==
    /\ pc = "finish"
    /\ sheets_to_process = <<>>
    /\ conn' = "closed"
    /\ result' = [result EXCEPT !.returned = TRUE, !.success = TRUE]
    /\ pc' = "done"
    /\ UNCHANGED <<cfg, sheets_to_process, sheetVars, poolVars, writeVars, db, sql, sanVars>>

(***************************************************************************)
(* The sanitizers, applied on their own.                                   *)
(***************************************************************************)
NotSanitized == [fn |-> "none", raised |-> FALSE, val |-> <<>>]

SanitizeColumn ==
    /\ pc = "sanitize"
    /\ san_out.fn = "none"
    /\ san_out' = [fn |-> "column", raised |-> sanitize_column_name(san_in).raised,
                   val |-> sanitize_column_name(san_in).val]
    /\ UNCHANGED <<cfg, sheets_to_process, pc, conn, sheetVars, poolVars, writeVars, db,
                   sql, result, san_in,
                   fn_args, fn_ret>>

SanitizeTable ==
    /\ pc = "sanitize"
    /\ san_out.fn = "none"
    /\ san_out' = [fn |-> "table", raised |-> sanitize_table_name(san_in).raised,
                   val |-> sanitize_table_name(san_in).val]
    /\ UNCHANGED <<cfg, sheets_to_process, pc, conn, sheetVars, poolVars, writeVars, db,
                   sql, result, san_in,
                   fn_args, fn_ret>>

(***************************************************************************)
(* Initial states.                                                         *)
(***************************************************************************)
Sheet1 == <<"S", "h", "e", "e", "t", "1">>

\* The calls whose names are plain: the rows, the chunk size, the source
\* kind and the backend vary.
DataCalls ==
    {[db_type |-> d, file_type |-> f[1], has_header |-> f[2], mode |-> "overwrite",
      field_mode |-> "create-all", current_sheet |-> Sheet1, target_table |-> <<>>,
      table_mapping |-> <<>>, field_mapping |-> <<>>,
      raw_headers |-> << <<"n", "o">>, <<"b">> >>,
      estimated_rows |-> e, n_rows |-> n, chunk_size |-> c, max_workers |-> m,
      max_indices |-> default_max_indices, natural_pk |-> FALSE,
      existing |-> <<>>, merged_ranges |-> <<>>] :
        d \in {"sqlite", "mysql"},
        f \in {<<"excel", TRUE>>, <<"csv", TRUE>>, <<"csv", FALSE>>},
        e \in 0..MaxRows,
        n \in 0..MaxRows,
        c \in 1..MaxChunkSize,
        m \in {MaxWorkers}}

\* The tables of the backend before the call: for each sheet none, or its
\* target table with the columns c.existing and one row.
InitialTables(c) ==
    IF c.existing = <<>> \/ sanitize_table_name(raw_table_name_of(c)).raised THEN {}
    ELSE {[name |-> sanitize_table_name(raw_table_name_of(c)).val,
           cols |-> c.existing,
           rows |-> << [cols |-> c.existing,
                        vals |-> [j \in DOMAIN c.existing |-> <<-2, j>>]] >>,
           indexes |-> <<>>]}

\* The state before the call: c is the first sheet, later the sheets after it.
InitOfRun(c, later) ==
    /\ cfg = c
    /\ sheets_to_process = later
    /\ field_mode = c.field_mode
    /\ pc = "start"
    /\ conn = "none"
    /\ headers = <<>>
    /\ table_name = <<>>
    /\ table_exists = FALSE
    /\ excel_to_db_mapping = <<>>
    /\ used_headers = <<>>
    /\ tasks = <<>>
    /\ fut = <<>>
    /\ data_chunks_dict = <<>>
    /\ processed_rows = 0
    /\ completed_chunks = 0
    /\ chunk_data_only = <<>>
    /\ w = w0
    /\ db = UNION {InitialTables(s) : s \in {c} \cup Range(later)}
    /\ txn = <<>>
    /\ sql = {}
    /\ result = Running
    /\ san_in = <<>>
    /\ san_out = NotSanitized
    /\ fn_args = <<>>
    /\ fn_ret = <<>>

\* A call that processes one sheet.
InitOf(c) == InitOfRun(c, <<>>)

Init == \E c \in DataCalls : c.n_rows - c.estimated_rows \in {-1, 0, 1} /\ InitOf(c)

Next ==
    \/ Inspect
    \/ ResolveTable
    \/ PrepareTable
    \/ CreateTable
    \/ BuildTasks
    \/ \E k \in DOMAIN fut : StartChunk(k)
    \/ \E k \in DOMAIN fut, raised \in BOOLEAN : FinishChunk(k, raised)
    \/ \E k \in DOMAIN fut : Collect(k)
    \/ BeginWrite
    \/ SqliteInsert
    \/ SqliteBatchCommit
    \/ SqliteFinalCommit
    \/ MysqlInsert
    \/ MysqlBatchCommit
    \/ \E done \in 0..MaxChunkSize : InsertFails(done)
    \/ CreateIndices
    \/ Finish

Spec == Init /\ [][Next]_vars

\* The calls whose names vary: sheet and table names, headers, the field
\* mapping, the modes and the table found in the backend.  The source is a
\* workbook sheet of two rows read as one chunk.
NameCalls ==
    {[db_type |-> d, file_type |-> "excel", has_header |-> TRUE, mode |-> mo,
      field_mode |-> fm, current_sheet |-> Sheet1, target_table |-> tt,
      table_mapping |-> tm, field_mapping |-> mp, raw_headers |-> rh,
      estimated_rows |-> 2, n_rows |-> 2, chunk_size |-> 2,
      max_workers |-> MaxWorkers, max_indices |-> default_max_indices,
      natural_pk |-> pk, existing |-> ex, merged_ranges |-> <<>>] :
        d \in {"sqlite", "mysql"},
        mo \in {"overwrite", "append"},
        fm \in {"create-all", "match-only"},
        tt \in {<<>>, <<"t", ";">>},
        tm \in {<<>>, << <<"_">> >>},
        mp \in {<<>>,
                << << <<"n", "o">>, <<"x">> >>, << <<"b">>, <<"y">> >> >>,
                << << <<"b">>, <<"y">> >>, << <<"n", "o">>, <<"x">> >> >>,
                << << <<"n", "o">>, <<"p", ";">> >> >>,
                << << <<"z">>, <<"x">> >> >>},
        rh \in {<< <<"n", "o">>, <<"b">> >>, << <<"b">>, <<"n", "o">> >>,
                << <<"n", "o">>, <<"n", "o">> >>},
        pk \in BOOLEAN,
        ex \in {<<>>, << <<"n", "o">>, <<"b">> >>, << <<"x">>, <<"y">> >>}}

InitNames == \E c \in NameCalls : InitOf(c)

SpecNames == InitNames /\ [][Next]_vars

\* The identifiers handed to the sanitizers: the short strings over a few
\* characters of each class, alone and after a run of letters that brings
\* them to the length limit.
SanAlphabet == {"s", "P", "_", "1", " ", ";", LatinSmallEAcute, CjkIdeograph,
                LoneSurrogate}

RECURSIVE StringsUpTo(_)
StringsUpTo(n) ==
    IF n = 0 THEN {<<>>}
    ELSE StringsUpTo(n - 1)
             \cup {Append(s, c) : s \in {t \in StringsUpTo(n - 1) : Len(t) = n - 1},
                                  c \in SanAlphabet}

SanInputs ==
    {[i \in 1..pad |-> "a"] \o s : pad \in {0, MaxIdentLen - 1}, s \in StringsUpTo(MaxNameLen)}

SanInit ==
    /\ cfg = CHOOSE c \in DataCalls : TRUE
    /\ sheets_to_process = <<>>
    /\ field_mode = "create-all"
    /\ pc = "sanitize"
    /\ conn = "none"
    /\ headers = <<>>
    /\ table_name = <<>>
    /\ table_exists = FALSE
    /\ excel_to_db_mapping = <<>>
    /\ used_headers = <<>>
    /\ tasks = <<>>
    /\ fut = <<>>
    /\ data_chunks_dict = <<>>
    /\ processed_rows = 0
    /\ completed_chunks = 0
    /\ chunk_data_only = <<>>
    /\ w = w0
    /\ db = {}
    /\ txn = <<>>
    /\ sql = {}
    /\ result = Running
    /\ san_in \in SanInputs
    /\ san_out = NotSanitized
    /\ fn_args = <<>>
    /\ fn_ret = <<>>

SanNext == SanitizeColumn \/ SanitizeTable

SpecSanitize == SanInit /\ [][SanNext]_vars

(***************************************************************************)
(* Properties.                                                             *)
(***************************************************************************)
\* The run is past the pool: write_data was entered.
WriteEntered == pc \in {"write", "inserted", "index"}

\* The chunk results in ascending chunk index, one after the other.
ResultsInChunkOrder == Flatten([k \in DOMAIN fut |-> fut[k].data])

\* C1: whatever the order in which the futures complete, the rows handed to
\* write_data are the chunk results concatenated in ascending chunk index.
C1_ReassemblyInChunkOrder ==
    WriteEntered => Flatten(chunk_data_only) = ResultsInChunkOrder

\* C1 witness: write_data was entered although a later chunk completed (and
\* was stored) before an earlier one.
C1_Witness ==
    /\ pc = "write"
    /\ Len(data_chunks_dict) >= 2
    /\ data_chunks_dict[1][1] > data_chunks_dict[2][1]

\* ceil(e / c), not by the coordinator's formula: the least n with n * c >= e
CeilDiv(e, c) == CHOOSE n \in 0..e : n * c >= e /\ \A m \in 0..(n - 1) : m * c < e

\* The data rows (from 0) of the window of task k.
WindowOf(k) ==
    {tasks[k].skiprows - HeaderLines + i : i \in 0..(tasks[k].nrows - 1)}

\* C2: for E estimated rows and chunk size W there are exactly ceil(E / W)
\* tasks with the indices 0..N-1; task k reads at most W rows from data row
\* k * W, the header being skipped once, so the windows are pairwise disjoint
\* and cover the data rows 0..E-1.
C2_ChunkWindows ==
    pc = "pool" =>
        /\ Len(tasks) = CeilDiv(cfg.estimated_rows, cfg.chunk_size)
        /\ \A k \in DOMAIN tasks :
              /\ tasks[k].chunk_id = k - 1
              /\ tasks[k].nrows = cfg.chunk_size
              /\ tasks[k].skiprows = HeaderLines + (k - 1) * cfg.chunk_size
        /\ \A j, k \in DOMAIN tasks : j /= k => WindowOf(j) \cap WindowOf(k) = {}
        /\ \A r \in 0..(cfg.estimated_rows - 1) : \E k \in DOMAIN tasks : r \in WindowOf(k)

\* C2 witness: several tasks over a source with a header row, the last
\* window reaching past the estimate.
C2_Witness ==
    /\ pc = "pool"
    /\ Len(tasks) >= 3
    /\ HeaderLines = 1
    /\ cfg.estimated_rows % cfg.chunk_size /= 0

\* The chunk indices whose result holds at least one row.
NonEmptyIndices == {tasks[k].chunk_id : k \in {j \in DOMAIN fut : fut[j].data /= <<>>}}

AllIndices == {tasks[k].chunk_id : k \in DOMAIN tasks}

\* C3 as stated: when an index of 0..N-1 is missing from the buffer after all
\* workers finished, write_data is not entered.
C3_MissingIndexIsFatal ==
    WriteEntered => AllIndices \subseteq Keys(data_chunks_dict)

\* C3: an index is stored in the buffer at most once; after all workers
\* finished the buffer holds exactly the indices whose result has a row, the
\* others are left out without an error, and write_data is entered with the
\* stored results.
C3_BufferHoldsNonEmptyResults ==
    /\ Distinct(KeyList(data_chunks_dict))
    /\ Keys(data_chunks_dict)
          \subseteq {tasks[k].chunk_id : k \in {j \in DOMAIN fut : fut[j].state = "collected"}}
    /\ WriteEntered =>
          /\ Keys(data_chunks_dict) = NonEmptyIndices
          /\ Len(chunk_data_only) = Cardinality(NonEmptyIndices)

\* C3 witness: write_data is entered while an index is missing from the buffer.
C3_Witness ==
    /\ pc = "write"
    /\ AllIndices \ Keys(data_chunks_dict) /= {}
    /\ Keys(data_chunks_dict) /= {}

\* The rows of the target table, as value tuples.
TableValues ==
    IF table_name \in TableNames(db)
    THEN [i \in DOMAIN TableOf(db, table_name).rows |-> TableOf(db, table_name).rows[i].vals]
    ELSE <<>>

\* The rows of the windows of the chunks whose worker did not fail, in
\* ascending chunk index.
RowsOfSurvivingChunks ==
    Flatten([k \in DOMAIN fut |->
                IF fut[k].failed THEN <<>>
                ELSE ReadWindow(tasks[k].skiprows, tasks[k].nrows)])

\* C4: a chunk whose worker failed contributes no row; the failure alone
\* never ends the run; and when the run ends after a failure it reports
\* success with fewer rows than the estimate, the table holding the rows of
\* every other chunk in order.
C4_WorkerFailureIsZeroRows ==
    /\ \A k \in DOMAIN fut : fut[k].failed => fut[k].data = <<>>
    /\ (\E k \in DOMAIN fut : fut[k].failed) =>
          /\ pc = "failed" => result.error = "write"
          /\ pc = "done" =>
                /\ result.success
                /\ result.total_rows < cfg.estimated_rows
                /\ result.total_rows = Len(RowsOfSurvivingChunks)
                /\ TableValues = RowsOfSurvivingChunks

\* C4 witness: the run ended with success after the worker of a chunk whose
\* window holds rows failed, other chunks having been written.
C4_Witness ==
    /\ pc = "done"
    /\ result.total_rows > 0
    /\ \E k \in DOMAIN fut :
          /\ fut[k].failed
          /\ ReadWindow(tasks[k].skiprows, tasks[k].nrows) /= <<>>
          /\ k < Len(fut)

\* The ordered row stream of write_data, as the rows the INSERT stores.
RowStream ==
    StoredRows(w.db_headers,
               IF cfg.db_type = "mysql" THEN w.rows
               ELSE Flatten([c \in DOMAIN chunk_data_only |->
                                sqlite_filtered(chunk_data_only[c], excel_to_db_mapping,
                                                w.mapped_indices)]))

\* The rows write_data had committed when it stopped: SQLite counts the rows
\* since its last commit, MySQL commits with every commit_every_batches-th batch.
RowsCommitted ==
    IF cfg.db_type = "sqlite" THEN w.total_rows - w.batch_size
    ELSE (w.processed_batches \div commit_every_batches)
             * commit_every_batches * mysql_batch_size

\* C5: when the insert of a batch fails, for either backend, the rows of the
\* open transaction are rolled back, the caller gets the error, and the table
\* holds exactly the rows committed before: a prefix of the row stream.
C5_BatchFailureRollsBack ==
    (pc = "failed" /\ result.error = "write" /\ table_name \in TableNames(db)) =>
        /\ txn = <<>>
        /\ result.returned
        /\ ~result.success
        /\ RowsCommitted <= Len(RowStream)
        /\ TableOf(db, table_name).rows = SubSeq(RowStream, 1, RowsCommitted)

\* C5 witness: a batch failed after some rows were committed and later rows
\* were inserted without a commit.
C5_Witness ==
    /\ pc = "failed"
    /\ result.error = "write"
    /\ table_name \in TableNames(db)
    /\ TableOf(db, table_name).rows /= <<>>
    /\ Len(TableOf(db, table_name).rows) < w.total_rows

\* The batch threshold of the backend, in rows.
BatchThreshold ==
    IF cfg.db_type = "sqlite" THEN max_batch_size
    ELSE mysql_batch_size * commit_every_batches

\* C6: at every point of write_data, for both backends, the rows inserted
\* and not yet committed number at most the backend's batch threshold, a
\* constant that depends neither on the chunk size nor on the row count.
C6_UncommittedRowsBounded == Len(txn) <= BatchThreshold

\* The rows this run inserted: those of the open transaction and those of
\* the table that come from the source (a cell of the source is <<row, column>>
\* with row >= 0).
RowsOfThisRun ==
    LET stored == IF table_name \in TableNames(db) THEN TableOf(db, table_name).rows
                  ELSE <<>>
    IN  {r \in Range(stored) \cup Range(txn) : \A k \in DOMAIN r.vals : r.vals[k][1] >= 0}

\* The positions of the source columns that are keys of the mapping.
MappedPositions == {j \in DOMAIN headers : headers[j] \in Keys(excel_to_db_mapping)}

\* The targets of the mapping's items whose key is a source column, in the
\* order of the items.
TargetsInMappingOrder ==
    LET idx == FilterIdx(KeyList(excel_to_db_mapping), Range(headers), 1)
    IN  [k \in DOMAIN idx |-> excel_to_db_mapping[idx[k]][2]]

\* C7 as stated: with a column mapping, the columns of the INSERT are the
\* targets of the mapped source columns in the order of the mapping's items.
C7_InsertColumnsInMappingOrder ==
    (WriteEntered /\ excel_to_db_mapping /= <<>>) => w.db_headers = TargetsInMappingOrder

\* C7: with a column mapping, a row is written with exactly the source
\* columns that are keys of the mapping, each cell under the target the
\* mapping gives its column, and the columns of the INSERT follow the order
\* of the source header.
C7_MappedColumnsInHeaderOrder ==
    excel_to_db_mapping /= <<>> =>
        \A r \in RowsOfThisRun :
            /\ Len(r.cols) = Len(r.vals)
            /\ {r.vals[k][2] : k \in DOMAIN r.vals} = MappedPositions
            /\ \A k \in DOMAIN r.vals :
                  r.cols[k] = Lookup(excel_to_db_mapping, headers[r.vals[k][2]])
            /\ \A j, k \in DOMAIN r.vals : j < k => r.vals[j][2] < r.vals[k][2]

\* C7 witness: the run ended with rows written under a mapping whose items
\* are in the reverse of the header order.
C7_Witness ==
    /\ pc = "done"
    /\ Len(excel_to_db_mapping) = 2
    /\ Len(headers) = 2
    /\ excel_to_db_mapping[1][1] = headers[2]
    /\ excel_to_db_mapping[2][1] = headers[1]
    /\ excel_to_db_mapping[1][2] /= excel_to_db_mapping[1][1]
    /\ Cardinality(RowsOfThisRun) = 2

\* C8: every table name and every column name put into the text of a CREATE
\* TABLE, INSERT, DROP TABLE or CREATE INDEX statement came out of the
\* sanitizers, so it passes validate_sql_identifier as their results do.
C8_SqlIdentifiersSanitized ==
    \A st \in sql : \A n \in st.idents : validate_sql_identifier(n).ok

\* The sanitizer that produced san_out, applied to a name.
SanitizeAgain(name) ==
    IF san_out.fn = "column" THEN sanitize_column_name(name) ELSE sanitize_table_name(name)

\* C9: sanitizing is idempotent: for every input, the sanitizer applied to
\* its own result returns that result, for sanitize_column_name and for
\* sanitize_table_name, at the length limit and on the hash fallback too.
C9_SanitizeIdempotent ==
    (san_out.fn /= "none" /\ ~san_out.raised) =>
        /\ ~SanitizeAgain(san_out.val).raised
        /\ SanitizeAgain(san_out.val).val = san_out.val

\* The fallback name of the sanitizer that produced san_out.
FallbackName ==
    (IF san_out.fn = "column" THEN <<"c", "o", "l", "_">>
     ELSE <<"t", "a", "b", "l", "e", "_">>) \o Md5Hex8(san_in)

\* The name the sanitizer validates: the cleaned input.
CleanedName ==
    IF san_out.fn = "table" THEN clean_table_name(san_in)
    ELSE LET cleaned == Strip(CollapseUnderscores(ReplaceNonWord(Strip(san_in, Whitespace))),
                              {"_"})
         IN  Take(IF cleaned = <<>> \/ ~(IsAlpha(cleaned[1]) \/ IsCjk(cleaned[1]))
                  THEN <<"c", "o", "l", "_">> \o cleaned ELSE cleaned, MaxIdentLen)

\* C10: sanitizing is total and keyword-free: for every input a name is
\* returned and nothing is raised, the name holds no blacklisted keyword and
\* no statement terminator, and when the cleaned name fails validation the
\* name is the fallback derived from a hash of the input.
C10_SanitizeTotalKeywordFree ==
    san_out.fn /= "none" =>
        /\ ~san_out.raised
        /\ ~HasDangerousPattern(san_out.val)
        /\ (san_in /= <<>> /\ ~validate_sql_identifier(CleanedName).ok) =>
               san_out.val = FallbackName

(***************************************************************************)
(* Workbooks with a merged range.                                          *)
(***************************************************************************)
\* The merged ranges of more than one cell within the data rows (sheet rows
\* 2..rows + 1) and the columns 1..cols.
MergedRangesIn(rows, cols) ==
    {rng \in (2..(rows + 1)) \X (1..cols) \X (2..(rows + 1)) \X (1..cols) :
        /\ rng[1] <= rng[3]
        /\ rng[2] <= rng[4]
        /\ <<rng[1], rng[2]>> /= <<rng[3], rng[4]>>}

\* The calls on a sheet of three rows and two columns with one merged range.
MergedCalls ==
    {[db_type |-> d, file_type |-> "excel", has_header |-> TRUE, mode |-> "overwrite",
      field_mode |-> "create-all", current_sheet |-> Sheet1, target_table |-> <<>>,
      table_mapping |-> <<>>, field_mapping |-> <<>>,
      raw_headers |-> << <<"n", "o">>, <<"b">> >>,
      estimated_rows |-> 3, n_rows |-> 3, chunk_size |-> c, max_workers |-> MaxWorkers,
      max_indices |-> default_max_indices, natural_pk |-> FALSE,
      existing |-> <<>>, merged_ranges |-> <<rng>>] :
        d \in {"sqlite", "mysql"},
        c \in 1..3,
        rng \in MergedRangesIn(3, 2)}

InitMerged == \E c \in MergedCalls : InitOf(c)

SpecMerged == InitMerged /\ [][Next]_vars

\* The sheet rows (from 1) of the window of task k.
SheetRowsOf(k) ==
    {row \in 1..(HeaderLines + cfg.n_rows) :
        /\ tasks[k].skiprows < row
        /\ row <= tasks[k].skiprows + tasks[k].nrows}

\* C11: after a worker processed a chunk of a workbook, every cell of a
\* merged range that lies in the chunk's row window holds the value of the
\* range's top-left cell in the source sheet.
C11_MergedCellsHoldAnchorValue ==
    \A k \in DOMAIN fut :
        (fut[k].state \in {"done", "collected"} /\ ~fut[k].failed) =>
            /\ fut[k].data = dropna_all(read_chunk(tasks[k]))
            /\ \A m \in DOMAIN cfg.merged_ranges :
                  \A row \in SheetRowsOf(k), col \in DOMAIN cfg.raw_headers :
                      InRange(cfg.merged_ranges[m], row, col) =>
                          read_chunk(tasks[k])[row - tasks[k].skiprows][col]
                              = <<cfg.merged_ranges[m][1] - 2, cfg.merged_ranges[m][2]>>

(***************************************************************************)
(* Loads into a fresh or an existing table, in both modes.                 *)
(***************************************************************************)
\* The calls whose mode, field mode and target table vary: the table is
\* absent or was created by an earlier load (its first column is the
\* synthetic id); the sheet is named Sheet1 or "-", whose table name is T_;
\* the source has a header row and no or two data rows.
ModeCalls ==
    {[db_type |-> d, file_type |-> "excel", has_header |-> TRUE, mode |-> mo,
      field_mode |-> fm, current_sheet |-> sh, target_table |-> <<>>,
      table_mapping |-> <<>>, field_mapping |-> <<>>, raw_headers |-> rh,
      estimated_rows |-> n, n_rows |-> n, chunk_size |-> 2,
      max_workers |-> MaxWorkers, max_indices |-> default_max_indices,
      natural_pk |-> pk, existing |-> ex, merged_ranges |-> <<>>] :
        d \in {"sqlite", "mysql"},
        mo \in {"overwrite", "append"},
        fm \in {"create-all", "match-only"},
        sh \in {Sheet1, <<"-">>},
        rh \in {<< <<"n", "o">>, <<"b">> >>, << <<"i", "d">>, <<"b">> >>},
        n \in {0, 2},
        pk \in BOOLEAN,
        ex \in {<<>>,
                << <<"i", "d">>, <<"n", "o">>, <<"b">> >>,
                << <<"i", "d">>, <<"n", "o">> >>,
                << <<"x">>, <<"y">> >>}}

\* No primary key is detected in a sample without rows (lines 425-426).
InitModes == \E c \in ModeCalls : (c.n_rows = 0 => ~c.natural_pk) /\ InitOf(c)

SpecModes == InitModes /\ [][Next]_vars

\* No worker of the run failed.
NoWorkerFailed == \A k \in DOMAIN fut : ~fut[k].failed

\* C12: a failure-free overwrite load of a source with R data rows into a
\* fresh table leaves exactly R rows in the table and reports R rows,
\* whatever the chunk size.
C12_RoundTripRowCount ==
    (pc = "done" /\ NoWorkerFailed /\ cfg.existing = <<>> /\ cfg.mode = "overwrite")
        => /\ table_name \in TableNames(db)
           /\ Len(TableOf(db, table_name).rows) = cfg.n_rows
           /\ result.total_rows = cfg.n_rows

\* The rows of the target table written by this run (the rows it held before
\* carry negative tags).
RowsWrittenNow ==
    IF table_name \in TableNames(db)
    THEN SelectSeq(TableOf(db, table_name).rows,
                   LAMBDA r : \A j \in DOMAIN r.vals : r.vals[j][1] >= -1 \/ r.vals[j] = NoneCell)
    ELSE <<>>

\* The cleaned source headers that are columns of the table the call found.
SourceColumnsInTable ==
    LET idx == FilterIdx(headers, Range(cfg.existing), 1)
    IN  [k \in DOMAIN idx |-> headers[idx[k]]]

\* C13: in append mode with match-only against an existing table, a
\* finished run wrote every source row with exactly the source columns that
\* are columns of the table, and wrote nothing (and reported no sheet) when
\* no source column is one.
C13_MatchOnlyWritesCommonColumns ==
    (/\ cfg.mode = "append" /\ cfg.field_mode = "match-only" /\ cfg.existing /= <<>>
     /\ pc = "done" /\ NoWorkerFailed)
        => IF SourceColumnsInTable /= <<>>
           THEN /\ Len(RowsWrittenNow) = cfg.n_rows
                /\ \A i \in DOMAIN RowsWrittenNow :
                       RowsWrittenNow[i].cols = SourceColumnsInTable
                /\ Len(result.sheet_results) = 1
           ELSE /\ RowsWrittenNow = <<>>
                /\ result.sheet_results = <<>>

\* The rows the target table held before the call.
RowsBefore ==
    IF InitialTables(cfg) = {} THEN <<>>
    ELSE (CHOOSE t \in InitialTables(cfg) : TRUE).rows

\* The sheet was loaded (not skipped) and the call returned success.
LoadSucceeded == pc = "done" /\ result.success /\ result.sheet_results /= <<>>

\* C14: after a successful load in overwrite mode the table holds only rows
\* of that load and has the columns of the new source; after a successful
\* load in append mode every row the table held before is still there.
C14_OverwriteReplacesAppendKeeps ==
    LoadSucceeded =>
        /\ table_name \in TableNames(db)
        /\ cfg.mode = "overwrite" =>
               /\ TableOf(db, table_name).rows = RowsWrittenNow
               /\ TableOf(db, table_name).cols = column_defs(created_headers, has_pk)
        /\ cfg.mode = "append" =>
               /\ Len(TableOf(db, table_name).rows) >= Len(RowsBefore)
               /\ SubSeq(TableOf(db, table_name).rows, 1, Len(RowsBefore)) = RowsBefore

\* C15: a source with a header row and no data rows, loaded into a table
\* that does not exist yet, never fails; the finished run reports success
\* and 0 rows, and the table exists and is empty.
C15_HeaderOnlySourceGivesEmptyTable ==
    (cfg.n_rows = 0 /\ cfg.estimated_rows = 0 /\ cfg.existing = <<>>)
        => /\ pc /= "failed"
           /\ pc = "done" =>
                  /\ result.success
                  /\ result.total_rows = 0
                  /\ table_name \in TableNames(db)
                  /\ TableOf(db, table_name).rows = <<>>

(***************************************************************************)
(* A workbook of two sheets, loaded in one call.                           *)
(***************************************************************************)
Sheet2 == <<"S", "2">>

\* One sheet of a call without mappings; the call's arguments are the same
\* for every sheet.
SheetCall(d, mo, sheet, rh, n, c) ==
    [db_type |-> d, file_type |-> "excel", has_header |-> TRUE, mode |-> mo,
     field_mode |-> "create-all", current_sheet |-> sheet, target_table |-> <<>>,
     table_mapping |-> <<>>, field_mapping |-> <<>>, raw_headers |-> rh,
     estimated_rows |-> n, n_rows |-> n, chunk_size |-> c,
     max_workers |-> MaxWorkers, max_indices |-> default_max_indices,
     natural_pk |-> FALSE, existing |-> <<>>, merged_ranges |-> <<>>]

\* sheet_name is None: every sheet of the workbook is processed (line 1934).
InitSheets ==
    \E d \in {"sqlite", "mysql"}, mo \in {"overwrite", "append"},
       n1 \in 1..2, n2 \in 0..1, c \in 1..2,
       rh2 \in {<< <<"n", "o">>, <<"b">> >>, << <<"i", "d">>, <<"b">> >>,
                << <<"b", ";">> >>} :
        InitOfRun(SheetCall(d, mo, Sheet1, << <<"n", "o">>, <<"b">> >>, n1, c),
                  << SheetCall(d, mo, Sheet2, rh2, n2, c) >>)

NextSheets == Next \/ NextSheet

SpecSheets == InitSheets /\ [][NextSheets]_vars

\* C16: a failure while loading one sheet aborts that sheet only: no sheet
\* result reported so far is lost by a step of the run, and the run does
\* not return while a sheet is still to be processed.
C16_FailureAbortsOneSheetOnly ==
    [][/\ Len(result'.sheet_results) >= Len(result.sheet_results)
       /\ result'.returned => sheets_to_process' = <<>>]_vars

(***************************************************************************)
(* The cell values of a chunk and the column transformations               *)
(* (process_chunk lines 911-967, apply_column_transformation).             *)
(***************************************************************************)
\* A cell of the DataFrame is a string, NaN (what pandas reads for a missing
\* cell) or None (what process_chunk puts into a column it adds).
StrValue(t) == [kind |-> "str", text |-> t]

NaNValue == [kind |-> "nan", text |-> <<>>]

NoneValue == [kind |-> "none", text |-> <<>>]

LineFeed == "U+000A"

\* str(x)
str_of(x) ==
    IF x.kind = "str" THEN x.text
    ELSE IF x.kind = "nan" THEN <<"n", "a", "n">>
    ELSE <<"N", "o", "n", "e">>

\* Lines 2338-2371, the rules uppercase, lowercase and trim; "" is no rule
\* and any other rule name returns the value as it is.
apply_column_transformation(excel_value, transform_rule) ==
    IF transform_rule = "" \/ excel_value.kind = "none" THEN excel_value
    ELSE IF transform_rule = "uppercase" THEN StrValue(Upper(str_of(excel_value)))
    ELSE IF transform_rule = "lowercase" THEN StrValue(Lower(str_of(excel_value)))
    ELSE IF transform_rule = "trim"
         THEN StrValue(Strip(str_of(excel_value), Whitespace \cup {LineFeed}))
    ELSE excel_value

\* Lines 933-944: line breaks become blanks (the other control characters
\* are not in the alphabet of the model).
clean_string_vectorized(x) ==
    IF x.kind /= "str" THEN x
    ELSE StrValue([i \in DOMAIN x.text |-> IF x.text[i] = LineFeed THEN " " ELSE x.text[i]])

\* Line 952: df_chunk.where(pd.notnull(df_chunk), None)
where_notnull(x) == IF x.kind = "nan" THEN NoneValue ELSE x

\* Lines 924-930: the rule of the column's header, if it has one.
transformed(x, header, transform_rules) ==
    IF transform_rules /= <<>> /\ header \in Keys(transform_rules)
    THEN apply_column_transformation(x, Lookup(transform_rules, header))
    ELSE x

\* Lines 911-958, the vectorized path, for a chunk as wide as the headers.
process_values(df_chunk, hdrs, transform_rules) ==
    [r \in DOMAIN df_chunk |->
        [c \in DOMAIN hdrs |->
            where_notnull(clean_string_vectorized(
                transformed(df_chunk[r][c], hdrs[c], transform_rules)))]]

\* A worker applied to the values of one chunk.
TransformChunk ==
    /\ pc = "transform"
    /\ fn_ret' = process_values(fn_args.df_chunk, fn_args.headers, fn_args.transform_rules)
    /\ pc' = "transformed"
    /\ UNCHANGED <<cfg, sheets_to_process, conn, sheetVars, poolVars, writeVars, db, sql,
                   result, san_in, san_out, fn_args>>

NameHeader == <<"n", "a", "m", "e">>

\* The values of the column name and of the column b.
NameValues ==
    {NaNValue, StrValue(<<"a">>), StrValue(<<"A", "b">>), StrValue(<<"a", LineFeed, "b">>),
     StrValue(<<" ", "a">>), StrValue(<<"1">>), StrValue(<<LatinSmallEAcute>>)}

OtherValues == {NaNValue, StrValue(<<"x">>)}

TransformRows == {<<x, y>> : x \in NameValues, y \in OtherValues}

TransformRules ==
    {<<>>} \cup {<< <<h, rule>> >> : h \in {NameHeader, <<"b">>},
                                    rule \in {"uppercase", "lowercase", "trim"}}

TransformInit ==
    /\ cfg = CHOOSE c \in DataCalls : TRUE
    /\ sheets_to_process = <<>>
    /\ field_mode = "create-all"
    /\ pc = "transform"
    /\ conn = "none"
    /\ headers = <<>>
    /\ table_name = <<>>
    /\ table_exists = FALSE
    /\ excel_to_db_mapping = <<>>
    /\ used_headers = <<>>
    /\ tasks = <<>>
    /\ fut = <<>>
    /\ data_chunks_dict = <<>>
    /\ processed_rows = 0
    /\ completed_chunks = 0
    /\ chunk_data_only = <<>>
    /\ w = w0
    /\ db = {}
    /\ txn = <<>>
    /\ sql = {}
    /\ result = Running
    /\ san_in = <<>>
    /\ san_out = NotSanitized
    /\ \E r1 \in TransformRows, r2 \in TransformRows, n \in 1..2, rules \in TransformRules :
           fn_args = [df_chunk |-> IF n = 1 THEN <<r1>> ELSE <<r1, r2>>,
                      headers |-> <<NameHeader, <<"b">> >>,
                      transform_rules |-> rules]
    /\ fn_ret = <<>>

TransformNext == TransformChunk

SpecTransform == TransformInit /\ [][TransformNext]_vars

\* C17: with the rule uppercase on a column, the value a worker returns for
\* that column is, in every row, the upper-cased source value, and null
\* where the source value is missing.
C17_UppercaseStoresUppercasedSource ==
    pc = "transformed" =>
        \A c \in DOMAIN fn_args.headers :
            (/\ fn_args.headers[c] \in Keys(fn_args.transform_rules)
             /\ Lookup(fn_args.transform_rules, fn_args.headers[c]) = "uppercase")
                => \A r \in DOMAIN fn_args.df_chunk :
                       fn_ret[r][c] =
                           IF fn_args.df_chunk[r][c].kind = "str"
                           THEN StrValue(Upper(fn_args.df_chunk[r][c].text))
                           ELSE NoneValue

(***************************************************************************)
(* detect_column_types (lines 421-523) and the value tests it uses.        *)
(***************************************************************************)
\* A sampled value that is no string: a Python int or float (text is str(x)).
IntValue(t) == [kind |-> "int", text |-> t]

FloatValue(t) == [kind |-> "float", text |-> t]

\* The length above which a string counts as long text (line 485).
long_text_length == 255

AllDigits(s) == s /= <<>> /\ \A i \in DOMAIN s : IsAsciiDigit(s[i])

Unsigned(s) == IF s /= <<>> /\ s[1] \in {"-", "+"} THEN Tail(s) ELSE s

\* Lines 351-367: an int, or a string of at most 20 characters (stripped)
\* that int() parses; the values of the model are all in the 64-bit range.
is_integer_value(value) ==
    IF value.kind = "int" THEN TRUE
    ELSE IF value.kind = "str"
    THEN LET stripped_value == Strip(value.text, Whitespace)
         IN  Len(stripped_value) <= 20 /\ AllDigits(Unsigned(stripped_value))
    ELSE FALSE

\* Lines 369-393: a float (NaN included), or a string digits.digits whose
\* value is no whole number (the forms of the pattern without a digit on
\* both sides of the point and with an exponent are not in the model).
is_float_value(value) ==
    IF value.kind \in {"float", "nan"} THEN TRUE
    ELSE IF value.kind = "str"
    THEN LET u == Unsigned(Strip(value.text, Whitespace))
         IN  \E p \in DOMAIN u :
                 /\ u[p] = "."
                 /\ AllDigits(SubSeq(u, 1, p - 1))
                 /\ AllDigits(SubSeq(u, p + 1, Len(u)))
                 /\ \E q \in (p + 1)..Len(u) : u[q] /= "0"
    ELSE FALSE

\* Lines 395-419: a datetime, or a string of the form 2023-01-01 or 20230101
\* (the first and the seventh pattern, with two-digit month and day).
is_date_value(value) ==
    IF value.kind = "datetime" THEN TRUE
    ELSE IF value.kind = "str"
    THEN LET t == Strip(value.text, Whitespace)
         IN  \/ /\ Len(t) = 10
                /\ t[5] = "-" /\ t[8] = "-"
                /\ \A i \in {1, 2, 3, 4, 6, 7, 9, 10} : IsAsciiDigit(t[i])
             \/ Len(t) = 8 /\ AllDigits(t)
    ELSE FALSE

\* Line 482
boolean_words ==
    {<<"t", "r", "u", "e">>, <<"f", "a", "l", "s", "e">>, <<"0">>, <<"1">>,
     <<"y", "e", "s">>, <<"n", "o">>}

is_boolean_text(value) == Lower(str_of(value)) \in boolean_words

\* Line 485
is_long_text(value) == value.kind = "str" /\ Len(value.text) > long_text_length

no_counts == [integer |-> 0, float |-> 0, date |-> 0, boolean |-> 0, long_text |-> 0]

\* The long-text test as one more branch of the chain.
count_value_exclusive(c, x) ==
    IF is_integer_value(x) THEN [c EXCEPT !.integer = @ + 1]
    ELSE IF is_float_value(x) THEN [c EXCEPT !.float = @ + 1]
    ELSE IF is_date_value(x) THEN [c EXCEPT !.date = @ + 1]
    ELSE IF is_boolean_text(x) THEN [c EXCEPT !.boolean = @ + 1]
    ELSE IF is_long_text(x) THEN [c EXCEPT !.long_text = @ + 1]
    ELSE c

\* Lines 473-486: what one value adds to the counters.
count_value(c, x) ==
    LET first == IF is_integer_value(x) THEN [c EXCEPT !.integer = @ + 1]
                 ELSE IF is_float_value(x) THEN [c EXCEPT !.float = @ + 1]
                 ELSE IF is_date_value(x) THEN [c EXCEPT !.date = @ + 1]
                 ELSE IF is_boolean_text(x) THEN [c EXCEPT !.boolean = @ + 1]
                 ELSE c
    IN  IF is_long_text(x) THEN [first EXCEPT !.long_text = @ + 1] ELSE first

\* Lines 461-486: the counters after the loop over non_empty.
RECURSIVE type_counters_from(_, _, _)
type_counters_from(non_empty, k, c) ==
    IF k > Len(non_empty) THEN c
    ELSE type_counters_from(non_empty, k + 1, count_value(c, non_empty[k]))

type_counters(non_empty) == type_counters_from(non_empty, 1, no_counts)

\* Line 455: [x for x in column_data if x is not None and str(x).strip() != '']
non_empty_of(column_data) ==
    SelectSeq(column_data,
              LAMBDA x : x.kind /= "none" /\ Strip(str_of(x), Whitespace) /= <<>>)

\* Line 489: max(1, int(total_values * 0.95)); int() drops the fraction.
threshold_of(total_values) ==
    IF (total_values * 95) \div 100 > 1 THEN (total_values * 95) \div 100 ELSE 1

default_type(db_type) == IF db_type = "sqlite" THEN "TEXT" ELSE "VARCHAR(255)"

\* Lines 453-511: the type of column i (counted from 0).
column_type_of(column_data, i, is_potential_pk, db_type) ==
    LET non_empty == non_empty_of(column_data)
        c         == type_counters(non_empty)
        threshold == threshold_of(Len(non_empty))
    IN  IF non_empty = <<>> THEN default_type(db_type)
        ELSE IF c.integer >= threshold
        THEN IF db_type = "sqlite"
             THEN (IF i = 0 /\ is_potential_pk THEN "INTEGER PRIMARY KEY" ELSE "INTEGER")
             ELSE (IF i = 0 /\ is_potential_pk THEN "INT AUTO_INCREMENT PRIMARY KEY"
                   ELSE "INT")
        ELSE IF c.float >= threshold THEN (IF db_type = "sqlite" THEN "REAL" ELSE "DOUBLE")
        ELSE IF c.date >= threshold THEN (IF db_type = "sqlite" THEN "DATE" ELSE "DATETIME")
        ELSE IF c.boolean >= threshold
        THEN (IF db_type = "sqlite" THEN "BOOLEAN" ELSE "TINYINT(1)")
        ELSE IF c.long_text > 0 THEN "TEXT"
        ELSE IF db_type = "sqlite" THEN "TEXT" ELSE "VARCHAR(n)"

\* Lines 444-450: column i (from 1) of the sample, without the None values.
column_of(sample_data, i) ==
    LET idx  == FilterIdx(sample_data,
                    {row \in Range(sample_data) : Len(row) >= i /\ row[i].kind /= "none"}, 1)
    IN  [k \in DOMAIN idx |-> sample_data[idx[k]][i]]

\* The list as the loop over the columns left it.
pad_types_missing(detected_types, hdrs, db_type) == detected_types

\* Lines 513-516: the list padded to the number of headers.
pad_types(detected_types, hdrs, db_type) ==
    detected_types \o [k \in 1..(Len(hdrs) - Len(detected_types)) |-> default_type(db_type)]

\* Lines 421-523.
detect_column_types(sample_data, hdrs, db_type) ==
    LET valid_rows == SelectSeq(sample_data, LAMBDA row : row /= <<>>)
        first_col_values == column_of(sample_data, 1)
        is_potential_pk == first_col_values /= <<>> /\ Distinct(first_col_values)
        max_cols == MaxOf({Len(valid_rows[r]) : r \in DOMAIN valid_rows})
    IN  IF sample_data = <<>> \/ hdrs = <<>> \/ valid_rows = <<>>
        THEN [k \in DOMAIN hdrs |-> default_type(db_type)]
        ELSE pad_types([i \in 1..max_cols |->
                           column_type_of(column_of(sample_data, i), i - 1,
                                          is_potential_pk, db_type)],
                       hdrs, db_type)

\* The counters of the columns, as the loop leaves them for each column.
column_counters(sample_data) ==
    LET valid_rows == SelectSeq(sample_data, LAMBDA row : row /= <<>>)
    IN  IF valid_rows = <<>> THEN <<>>
        ELSE [i \in 1..MaxOf({Len(valid_rows[r]) : r \in DOMAIN valid_rows}) |->
                 type_counters(non_empty_of(column_of(sample_data, i)))]

\* detect_column_types applied to one sample.
DetectTypes ==
    /\ pc = "detect"
    /\ fn_ret' = [types |-> detect_column_types(fn_args.sample_data, fn_args.headers,
                                                fn_args.db_type),
                  counters |-> IF fn_args.headers = <<>> THEN <<>>
                               ELSE column_counters(fn_args.sample_data)]
    /\ pc' = "detected"
    /\ UNCHANGED <<cfg, sheets_to_process, conn, sheetVars, poolVars, writeVars, db, sql,
                   result, san_in, san_out, fn_args>>

\* most rows and most columns of a sample
MaxSampleRows == 3

MaxSampleWidth == 3

\* "7" followed by blanks up to 256 characters: an integer and a long string.
PaddedSeven == <<"7">> \o [k \in 1..long_text_length |-> " "]

SampleValues ==
    {NoneValue, IntValue(<<"7">>), StrValue(<<"a", "b", "c">>), StrValue(<<"1", ".", "5">>),
     StrValue(<<"y", "e", "s">>), StrValue(PaddedSeven)}

\* The samples: up to MaxSampleRows rows of one width; the first column
\* varies, the other columns hold plain text.
SamplesOf(n) ==
    {[r \in 1..n |-> [c \in 1..wd |-> IF c = 1 THEN first[r] ELSE StrValue(<<"x">>)]] :
        wd \in 1..MaxSampleWidth, first \in [1..n -> SampleValues]}

SamplesUpTo(n) == UNION {SamplesOf(m) : m \in 0..n}

DetectInit ==
    /\ cfg = CHOOSE c \in DataCalls : TRUE
    /\ sheets_to_process = <<>>
    /\ field_mode = "create-all"
    /\ pc = "detect"
    /\ conn = "none"
    /\ headers = <<>>
    /\ table_name = <<>>
    /\ table_exists = FALSE
    /\ excel_to_db_mapping = <<>>
    /\ used_headers = <<>>
    /\ tasks = <<>>
    /\ fut = <<>>
    /\ data_chunks_dict = <<>>
    /\ processed_rows = 0
    /\ completed_chunks = 0
    /\ chunk_data_only = <<>>
    /\ w = w0
    /\ db = {}
    /\ txn = <<>>
    /\ sql = {}
    /\ result = Running
    /\ san_in = <<>>
    /\ san_out = NotSanitized
    /\ \E sample \in SamplesUpTo(MaxSampleRows), hdrs \in {<<>>, << <<"n", "o">>, <<"b">> >>},
          d \in {"sqlite", "mysql"} :
           fn_args = [sample_data |-> sample, headers |-> hdrs, db_type |-> d]
    /\ fn_ret = <<>>

DetectNext == DetectTypes

SpecDetect == DetectInit /\ [][DetectNext]_vars

\* The non-empty values of column i of the sample detect_column_types was given.
SampledValues(i) == non_empty_of(column_of(fn_args.sample_data, i))

\* C18: a column gets a type other than text only if the values counted
\* for that type are at least one and at least 95% of the column's
\* non-empty sampled values.
C18_TypeNeeds95Percent ==
    pc = "detected" =>
        \A i \in DOMAIN fn_ret.counters :
            LET n == Len(SampledValues(i))
                t == fn_ret.types[i]
                c == fn_ret.counters[i]
                enough(count) == count >= 1 /\ count * 100 >= 95 * n
            IN  /\ t \in {"INTEGER", "INTEGER PRIMARY KEY", "INT",
                          "INT AUTO_INCREMENT PRIMARY KEY"} => enough(c.integer)
                /\ t \in {"REAL", "DOUBLE"} => enough(c.float)
                /\ t \in {"DATE", "DATETIME"} => enough(c.date)
                /\ t \in {"BOOLEAN", "TINYINT(1)"} => enough(c.boolean)

\* How many of the values satisfy P.
CountOf(values, P(_)) == Cardinality({k \in DOMAIN values : P(values[k])})

\* C19 as stated: every non-empty sampled value increments one counter or
\* none, so the five counters of a column add up to at most the number of
\* its non-empty values.
C19_CountersAddUpToValues ==
    pc = "detected" =>
        \A i \in DOMAIN fn_ret.counters :
            LET c == fn_ret.counters[i]
            IN  c.integer + c.float + c.date + c.boolean + c.long_text
                    <= Len(SampledValues(i))

\* C19: every non-empty sampled value increments at most one of the counters
\* integer, float, date and boolean, the first in that order whose test it
\* passes, and, independently of these, the long-text counter when it is a
\* string of more than 255 characters.
C19_CountersByPrecedence ==
    pc = "detected" =>
        \A i \in DOMAIN fn_ret.counters :
            LET c  == fn_ret.counters[i]
                vs == SampledValues(i)
                int(x)   == is_integer_value(x)
                flt(x)   == ~is_integer_value(x) /\ is_float_value(x)
                dat(x)   == ~is_integer_value(x) /\ ~is_float_value(x) /\ is_date_value(x)
                bool(x)  == /\ ~is_integer_value(x) /\ ~is_float_value(x)
                            /\ ~is_date_value(x) /\ is_boolean_text(x)
                long(x)  == is_long_text(x)
            IN  /\ c.integer = CountOf(vs, int)
                /\ c.float = CountOf(vs, flt)
                /\ c.date = CountOf(vs, dat)
                /\ c.boolean = CountOf(vs, bool)
                /\ c.long_text = CountOf(vs, long)
                /\ c.integer + c.float + c.date + c.boolean <= Len(vs)

\* A column whose only value was counted as an integer and as long text.
C19_Witness ==
    /\ pc = "detected"
    /\ \E i \in DOMAIN fn_ret.counters :
           /\ Len(SampledValues(i)) = 1
           /\ fn_ret.counters[i].integer = 1
           /\ fn_ret.counters[i].long_text = 1

\* The widest row of the sample (0 for a sample without rows).
WidestRow ==
    IF fn_args.sample_data = <<>> THEN 0
    ELSE MaxOf({Len(fn_args.sample_data[r]) : r \in DOMAIN fn_args.sample_data})

\* C20 as stated: the type list has one entry per header, for every sample.
C20_OneTypePerHeader ==
    pc = "detected" => Len(fn_ret.types) = Len(fn_args.headers)

\* C20: the type list has one entry per header when there is no header or
\* the sample has no column, and otherwise as many entries as the wider of
\* the header list and the sample: never fewer than there are headers.
C20_TypeListCoversHeaders ==
    pc = "detected" =>
        Len(fn_ret.types) =
            IF fn_args.headers = <<>> \/ WidestRow = 0 \/ Len(fn_args.headers) >= WidestRow
            THEN Len(fn_args.headers)
            ELSE WidestRow

\* A sample wider than the header list.
C20_Witness ==
    /\ pc = "detected"
    /\ fn_args.headers /= <<>>
    /\ WidestRow > Len(fn_args.headers)
    /\ Len(fn_ret.types) = WidestRow

\* The types that make column 0 the primary key of the table.
primary_key_types == {"INTEGER PRIMARY KEY", "INT AUTO_INCREMENT PRIMARY KEY"}

\* C21: column 0 is given a primary key type only if every sampled row has
\* a non-null value in column 0 and these values are pairwise distinct.
C21_NaturalKeyNeedsNonNullDistinct ==
    (pc = "detected" /\ fn_ret.types /= <<>> /\ fn_ret.types[1] \in primary_key_types)
        => /\ \A r \in DOMAIN fn_args.sample_data :
                  /\ fn_args.sample_data[r] /= <<>>
                  /\ fn_args.sample_data[r][1].kind \notin {"none", "nan"}
           /\ Distinct([r \in DOMAIN fn_args.sample_data |-> fn_args.sample_data[r][1]])

\* The headers whose lower-cased name contains a keyword, in header order.
KeywordHeaders == SelectSeq(headers, IsIndexCandidate)

\* The columns of the indexes of the target table, in the order of creation.
IndexedColumns ==
    IF table_name \in TableNames(db)
    THEN [k \in DOMAIN TableOf(db, table_name).indexes |->
             TableOf(db, table_name).indexes[k].col]
    ELSE <<>>

\* create_indices ran for the current sheet.
IndicesCreated ==
    /\ pc \in {"finish", "done"}
    /\ result.sheet_results /= <<>>
    /\ cfg.mode = "overwrite" \/ ~table_exists

\* C22: create_indices creates one index on each of the first
\* min(max_indices, m) of the m headers that contain a keyword, in header
\* order, and no other index.
C22_IndexesOnFirstKeywordHeaders ==
    IndicesCreated =>
        IndexedColumns =
            SubSeq(KeywordHeaders, 1,
                   IF Len(KeywordHeaders) < cfg.max_indices THEN Len(KeywordHeaders)
                   ELSE cfg.max_indices)

(***************************************************************************)
(* The two paths of a worker: the vectorized one and the per-cell one      *)
(* (process_chunk lines 911-967 and 969-995).                              *)
(***************************************************************************)
null_spellings == {<<"n", "a", "n">>, <<"n", "o", "n", "e">>, <<"n", "u", "l", "l">>}

\* Lines 167-180
is_nan_or_empty(value) ==
    \/ value.kind \in {"none", "nan"}
    \/ value.kind = "str" /\ Strip(value.text, Whitespace \cup {LineFeed}) = <<>>
    \/ Lower(str_of(value)) \in null_spellings

\* Lines 971-993: the per-cell path, for a chunk as wide as the headers.
fallback_values(df_chunk, hdrs, transform_rules) ==
    [r \in DOMAIN df_chunk |->
        [c \in DOMAIN hdrs |->
            LET cell_value == transformed(df_chunk[r][c], hdrs[c], transform_rules)
            IN  IF is_nan_or_empty(cell_value) THEN NoneValue
                ELSE clean_string_vectorized(cell_value)]]

\* The handler of line 969, entered with the chunk as it was read.
FallbackChunk ==
    /\ pc = "transform"
    /\ fn_ret' = fallback_values(fn_args.df_chunk, fn_args.headers, fn_args.transform_rules)
    /\ pc' = "fell back"
    /\ UNCHANGED <<cfg, sheets_to_process, conn, sheetVars, poolVars, writeVars, db, sql,
                   result, san_in, san_out, fn_args>>

\* The values of the first column: present, missing, and the spellings of
\* a blank that pandas leaves as strings.
PathValues ==
    {NaNValue, StrValue(<<"a">>), StrValue(<<" ">>), StrValue(<<"n", "o", "n", "e">>),
     StrValue(<<"N", "u", "l", "l">>), StrValue(<<"a", LineFeed, "b">>)}

PathRows == {<<x, y>> : x \in PathValues, y \in {NaNValue, StrValue(<<"x">>)}}

PathRules ==
    {<<>>, << <<NameHeader, "uppercase">> >>, << <<NameHeader, "trim">> >>,
     << << <<"b">>, "uppercase">> >>}

PathInit ==
    /\ cfg = CHOOSE c \in DataCalls : TRUE
    /\ sheets_to_process = <<>>
    /\ field_mode = "create-all"
    /\ pc = "transform"
    /\ conn = "none"
    /\ headers = <<>>
    /\ table_name = <<>>
    /\ table_exists = FALSE
    /\ excel_to_db_mapping = <<>>
    /\ used_headers = <<>>
    /\ tasks = <<>>
    /\ fut = <<>>
    /\ data_chunks_dict = <<>>
    /\ processed_rows = 0
    /\ completed_chunks = 0
    /\ chunk_data_only = <<>>
    /\ w = w0
    /\ db = {}
    /\ txn = <<>>
    /\ sql = {}
    /\ result = Running
    /\ san_in = <<>>
    /\ san_out = NotSanitized
    /\ \E r1 \in PathRows, r2 \in PathRows, n \in 1..2, rules \in PathRules :
           fn_args = [df_chunk |-> IF n = 1 THEN <<r1>> ELSE <<r1, r2>>,
                      headers |-> <<NameHeader, <<"b">> >>,
                      transform_rules |-> rules]
    /\ fn_ret = <<>>

PathNext == TransformChunk \/ FallbackChunk

SpecPaths == PathInit /\ [][PathNext]_vars

\* Whether a source value is one of the spellings of a blank.
IsBlankSpelling(x) ==
    \/ x.kind \in {"none", "nan"}
    \/ x.kind = "str" /\ \A i \in DOMAIN x.text : x.text[i] = " "
    \/ x.kind = "str" /\ x.text \in null_spellings

\* C23: in every row a worker returns, on either path, a cell whose source
\* value is missing, NaN, empty, blank or one of nan, none, null is null.
C23_BlankSpellingsBecomeNull ==
    pc \in {"transformed", "fell back"} =>
        \A r \in DOMAIN fn_args.df_chunk, c \in DOMAIN fn_args.headers :
            IsBlankSpelling(fn_args.df_chunk[r][c]) => fn_ret[r][c] = NoneValue

\* C29: the per-cell path returns the rows the vectorized path returns for
\* the same chunk and rules.
C29_FallbackReturnsSameRows ==
    pc = "fell back" =>
        fn_ret = process_values(fn_args.df_chunk, fn_args.headers, fn_args.transform_rules)


(***************************************************************************)
(* The header clean-up of get_excel_info / get_csv_info as a call of its   *)
(* own: fn_args is the raw header row, fn_ret the cleaned header list.     *)
(***************************************************************************)
CleanHeader ==
    /\ pc = "clean"
    /\ pc' = "cleaned"
    /\ fn_ret' = cleaned_header_of(fn_args)
    /\ UNCHANGED <<cfg, sheets_to_process, field_mode, conn, sheetVars, poolVars,
                   writeVars, db, sql, result, san_in, san_out, fn_args>>

\* header cells: short names, and names at the length limit of an identifier
HeaderCells ==
    {[i \in 1..pad |-> "a"] \o s : pad \in {0, MaxIdentLen - 1},
                                   s \in {<<>>} \cup {<<c>> : c \in SanAlphabet}}

HeaderRows == {<<a>> : a \in HeaderCells} \cup {<<a, b>> : a, b \in HeaderCells}

HeaderInit ==
    /\ cfg = CHOOSE c \in DataCalls : TRUE
    /\ sheets_to_process = <<>>
    /\ field_mode = "create-all"
    /\ pc = "clean"
    /\ conn = "none"
    /\ headers = <<>>
    /\ table_name = <<>>
    /\ table_exists = FALSE
    /\ excel_to_db_mapping = <<>>
    /\ used_headers = <<>>
    /\ tasks = <<>>
    /\ fut = <<>>
    /\ data_chunks_dict = <<>>
    /\ processed_rows = 0
    /\ completed_chunks = 0
    /\ chunk_data_only = <<>>
    /\ w = w0
    /\ db = {}
    /\ txn = <<>>
    /\ sql = {}
    /\ result = Running
    /\ san_in = <<>>
    /\ san_out = NotSanitized
    /\ fn_args \in HeaderRows
    /\ fn_ret = <<>>

HeaderNext == CleanHeader

SpecHeaders == HeaderInit /\ [][HeaderNext]_vars

\* C24: the cleaned header list of every raw header row has pairwise
\* distinct names, and every name in it has at most 64 characters.
C24_HeadersDistinctAndCapped ==
    (pc = "cleaned" /\ ~fn_ret.raised) =>
        /\ \A i, j \in DOMAIN fn_ret.val : i # j => fn_ret.val[i] # fn_ret.val[j]
        /\ \A i \in DOMAIN fn_ret.val : Len(fn_ret.val[i]) <= MaxIdentLen


(***************************************************************************)
(* A workbook of two sheets whose names, field mapping and target tables   *)
(* vary: the first sheet has a field mapping or none, the second has none  *)
(* and its table may exist before the call.                                *)
(***************************************************************************)
SheetDash == <<"S", "-", "2">>

SheetDot == <<"S", ".", "2">>

BookInit ==
    \E d \in {"sqlite", "mysql"}, mo \in {"overwrite", "append"},
       fm \in {"create-all", "match-only"},
       fmap \in {<<>>, << <<<<"n", "o">>, <<"x">>>> >>},
       s1 \in {Sheet1, SheetDash}, s2 \in {Sheet2, SheetDot},
       ex \in {<<>>, << <<"i", "d">>, <<"n", "o">> >>},
       n2 \in 0..1 :
        InitOfRun([SheetCall(d, mo, s1, << <<"n", "o">>, <<"b">> >>, 2, 2)
                       EXCEPT !.field_mode = fm, !.field_mapping = fmap],
                  << [SheetCall(d, mo, s2, << <<"n", "o">>, <<"b">> >>, n2, 2)
                          EXCEPT !.field_mode = fm, !.existing = ex] >>)

SpecBook == BookInit /\ [][NextSheets]_vars

\* C25: the field mode applied to a sheet depends only on the field mode of
\* the call and on the sheet's own field mapping: while the sheet's table is
\* prepared and created, the mode is "mapping" if the sheet has a mapping and
\* the caller's mode otherwise, whatever the sheets before it had.
C25_FieldModePerSheet ==
    pc \in {"prepare", "create"} =>
        field_mode = IF cfg.field_mapping /= <<>> THEN "mapping" ELSE cfg.field_mode

\* C26: in an overwrite run without table mapping no two sheets resolve to
\* the same table name, and when the run ends the table of every sheet
\* still holds the rows reported for that sheet.
C26_SheetsKeepTheirTables ==
    (pc = "done" /\ cfg.mode = "overwrite" /\ cfg.table_mapping = <<>>) =>
        /\ \A i, j \in DOMAIN result.sheet_results :
               i # j => result.sheet_results[i].table_name # result.sheet_results[j].table_name
        /\ \A i \in DOMAIN result.sheet_results :
               /\ result.sheet_results[i].table_name \in TableNames(db)
               /\ Len(TableOf(db, result.sheet_results[i].table_name).rows)
                      >= result.sheet_results[i].rows_processed


\* C27: whenever createTable is called for a table that does not exist, with
\* pairwise distinct headers and either value of has_pk, the names of the
\* column definitions it emits are pairwise distinct without regard to case:
\* the synthetic key column id collides with no header.
C27_ColumnNamesDistinct ==
    [][(pc = "create" /\ pc' /= "create" /\ ~table_exists /\ Distinct(created_headers))
           => Distinct([i \in DOMAIN column_defs(created_headers, has_pk) |->
                           Upper(column_defs(created_headers, has_pk)[i])])]_vars


(***************************************************************************)
(* The column types of a table created in mapping mode (lines 2071-2092):  *)
(* fn_args is [sample_data, headers, mapping, db_type], fn_ret the target  *)
(* columns with the types create_table is given for them.                  *)
(***************************************************************************)
\* the positions of the mapped headers, in header order (lines 2079-2081)
mapped_positions(hdrs, mapping, row) ==
    SelectSeq(FilterIdx(hdrs, Keys(mapping), 1), LAMBDA i : i <= Len(row))

\* mapped_sample: of each row the cells of the mapped headers; a row without
\* such cells is left out (lines 2077-2084)
mapped_sample_of(sample_data, hdrs, mapping) ==
    SelectSeq([r \in DOMAIN sample_data |->
                  LET pos == mapped_positions(hdrs, mapping, sample_data[r])
                  IN  [k \in DOMAIN pos |-> sample_data[r][pos[k]]]],
              LAMBDA mapped_row : mapped_row /= <<>>)

MapTypes ==
    /\ pc = "map types"
    /\ fn_ret' = [headers |-> ValueList(fn_args.mapping),
                  types |-> detect_column_types(
                                mapped_sample_of(fn_args.sample_data, fn_args.headers,
                                                 fn_args.mapping),
                                ValueList(fn_args.mapping), fn_args.db_type)]
    /\ pc' = "typed"
    /\ UNCHANGED <<cfg, sheets_to_process, field_mode, conn, sheetVars, poolVars,
                   writeVars, db, sql, result, san_in, san_out, fn_args>>

\* the field mappings of a sheet with the headers no, b: in header order, in
\* the opposite order, and of one column
SampleMappings ==
    {<< <<<<"n", "o">>, <<"x">>>>, <<<<"b">>, <<"y">>>> >>,
     << <<<<"b">>, <<"y">>>>, <<<<"n", "o">>, <<"x">>>> >>,
     << <<<<"b">>, <<"y">>>> >>}

MappedInit ==
    /\ cfg = CHOOSE c \in DataCalls : TRUE
    /\ sheets_to_process = <<>>
    /\ field_mode = "mapping"
    /\ pc = "map types"
    /\ conn = "none"
    /\ headers = <<>>
    /\ table_name = <<>>
    /\ table_exists = FALSE
    /\ excel_to_db_mapping = <<>>
    /\ used_headers = <<>>
    /\ tasks = <<>>
    /\ fut = <<>>
    /\ data_chunks_dict = <<>>
    /\ processed_rows = 0
    /\ completed_chunks = 0
    /\ chunk_data_only = <<>>
    /\ w = w0
    /\ db = {}
    /\ txn = <<>>
    /\ sql = {}
    /\ result = Running
    /\ san_in = <<>>
    /\ san_out = NotSanitized
    /\ \E sample \in SamplesUpTo(MaxSampleRows), m \in SampleMappings,
          d \in {"sqlite", "mysql"} :
           fn_args = [sample_data |-> sample, headers |-> << <<"n", "o">>, <<"b">> >>,
                      mapping |-> m, db_type |-> d]
    /\ fn_ret = <<>>

MappedNext == MapTypes

SpecMapped == MappedInit /\ [][MappedNext]_vars

\* The sample with, in each row, the cell of source column mapping-key k at
\* position k: the columns in the order of the target columns.
SampleInMappingOrder(sample_data, hdrs, mapping) ==
    SelectSeq([r \in DOMAIN sample_data |->
                  LET pos == SelectSeq([k \in DOMAIN mapping |->
                                           CHOOSE i \in DOMAIN hdrs : hdrs[i] = mapping[k][1]],
                                       LAMBDA i : i <= Len(sample_data[r]))
                  IN  [k \in DOMAIN pos |-> sample_data[r][pos[k]]]],
              LAMBDA row : row /= <<>>)

\* C28: in mapping mode the type given to target column mapping[h] is the
\* type inferred from the sampled values of source column h, whatever the
\* order of the mapping's entries relative to the headers.
C28_MappedTypeFromSourceColumn ==
    pc = "typed" =>
        fn_ret.types = detect_column_types(
                           SampleInMappingOrder(fn_args.sample_data, fn_args.headers,
                                                fn_args.mapping),
                           ValueList(fn_args.mapping), fn_args.db_type)


(***************************************************************************)
(* The run under fairness.  file_to_database is one thread that executes   *)
(* its statements in sequence: every loop of the function is over a finite *)
(* list, every task submitted to the pool is run to its end by a worker,   *)
(* and as_completed returns once every future is done.  The thread         *)
(* therefore stays at no position of the function for ever, except where   *)
(* it has returned.                                                        *)
(***************************************************************************)
Positions ==
    {"start", "resolve", "prepare", "create", "tasks", "pool", "write", "inserted",
     "index", "finish", "done", "failed"}

\* the two returns of file_to_database (lines 2207 and 2220)
Returned == {"done", "failed"}

\* the thread leaves the position it is at
MoveOn == pc \notin Returned /\ pc' \in Positions \ {pc}

SpecLive == InitModes /\ [][Next]_vars /\ WF_pc(MoveOn)

====
